---- MODULE Spec2Model ----
(***************************************************************************)
(* Model of the invoice validation engine of factura-project               *)
(* (src/rag/validator.py, InvoiceValidator) and of the values it is fed.   *)
(*                                                                         *)
(* Python values are tagged records:                                       *)
(*   Missing  the key is not in the dict                                   *)
(*   None     the key holds None                                           *)
(*   Str(s)   a str, s the sequence of its characters                      *)
(*   Num(v)   a finite float, v its value in hundredths (12.50 is 1250)    *)
(*   List(l)  a list                                                       *)
(* Float arithmetic is modelled exactly on the hundredths; a comparison    *)
(* such as  a / b * 100 > 19.5  is cross-multiplied.                       *)
(***************************************************************************)
EXTENDS Integers, Sequences, FiniteSets, TLC

VARIABLES data, kb, now, ticks, pc, report,
          ocr_text, runs,
          factura_files, validator, idx, all_results, json_output_dir,
          output_ocr,
          invoices_data, results, i_invoice,
          normalizer_instance, instances, callers

\* what the text pipeline of src/app.py adds to the state of the validator:
\* the text of the document and the results of its earlier runs
pipeline_vars == <<ocr_text, runs>>

\* the state of the batch of src/main.py
batch_vars == <<factura_files, validator, idx, all_results, json_output_dir>>

\* what extract_semantic_data is given (its argument ocr_output)
intake_vars == <<output_ocr>>

\* the state of DataExtractor.process_batch of src/extractor/data_extractor.py
extractor_vars == <<invoices_data, results, i_invoice>>

\* the module state of src/llm/normalizer.py and its callers
llm_vars == <<normalizer_instance, instances, callers>>

vars == <<data, kb, now, ticks, pc, report, ocr_text, runs,
          factura_files, validator, idx, all_results, json_output_dir,
          output_ocr, invoices_data, results, i_invoice,
          normalizer_instance, instances, callers>>

-----------------------------------------------------------------------------
(* Python values *)

Missing == [t |-> "missing"]
None == [t |-> "none"]
Str(s) == [t |-> "str", s |-> s]
Num(v) == [t |-> "num", v |-> v]
List(l) == [t |-> "list", l |-> l]

NA == <<"N", "/", "A">>

\* bool(x): None, '', 0 and [] are falsy
Truthy(x) ==
    CASE x.t = "none" -> FALSE
      [] x.t = "missing" -> FALSE
      [] x.t = "str" -> Len(x.s) > 0
      [] x.t = "num" -> x.v # 0
      [] x.t = "list" -> Len(x.l) > 0

\* x in ['N/A', '', None]
InNAList(x) == x = Str(NA) \/ x = Str(<<>>) \/ x = None

\* dict.get(key): None when the key is absent
Get(d, k) == IF d[k] = Missing THEN None ELSE d[k]

\* dict.get(key, default)
GetDefault(d, k, default) == IF d[k] = Missing THEN default ELSE d[k]

-----------------------------------------------------------------------------
(* The parts of the state a specification leaves alone *)

\* extract_semantic_data is given nothing
SinIntake == output_ocr = None

\* no DataExtractor is at work
SinExtractor == invoices_data = <<>> /\ results = <<>> /\ i_invoice = 0

\* the module src/llm/normalizer.py is loaded and nobody calls it
SinLlm == normalizer_instance = 0 /\ instances = 0 /\ callers = <<>>

-----------------------------------------------------------------------------
(* Characters and digits *)

DigitChars == <<"0", "1", "2", "3", "4", "5", "6", "7", "8", "9">>

IsDigit(c) == \E i \in 1..10 : DigitChars[i] = c

DigitVal(c) == (CHOOSE i \in 1..10 : DigitChars[i] = c) - 1

DigitChar(n) == DigitChars[n + 1]

AllDigits(s) == \A i \in 1..Len(s) : IsDigit(s[i])

RECURSIVE DigitsValue(_)
\* int(s) for a string of decimal digits
DigitsValue(s) ==
    IF Len(s) = 0 THEN 0
    ELSE 10 * DigitsValue(SubSeq(s, 1, Len(s) - 1)) + DigitVal(s[Len(s)])

RECURSIVE NatDigits(_)
\* the decimal digits of a natural number, no leading zeros
NatDigits(n) ==
    IF n < 10 THEN <<DigitChar(n)>>
    ELSE Append(NatDigits(n \div 10), DigitChar(n % 10))

\* re.sub(r'[^0-9]', '', s)
OnlyDigits(s) == SelectSeq(s, IsDigit)

IsHex(c) ==
    IsDigit(c) \/ c \in {"a", "b", "c", "d", "e", "f", "A", "B", "C", "D", "E", "F"}

\* re.sub(r'[^a-fA-F0-9]', '', s)
OnlyHex(s) == SelectSeq(s, IsHex)

\* str(x) of a float with at most two decimals: '12.5', '3.0', '-0.05'
StrOfNum(v) ==
    LET a == IF v < 0 THEN -v ELSE v
        frac == a % 100
        fracs == IF frac % 10 = 0 THEN <<DigitChar(frac \div 10)>>
                 ELSE <<DigitChar(frac \div 10), DigitChar(frac % 10)>>
    IN (IF v < 0 THEN <<"-">> ELSE <<>>) \o NatDigits(a \div 100) \o <<".">> \o fracs

\* str(x)
StrOf(x) ==
    CASE x.t = "str" -> x.s
      [] x.t = "num" -> StrOfNum(x.v)
      [] x.t = "none" -> <<"N", "o", "n", "e">>
      [] OTHER -> <<"[", "]">>

-----------------------------------------------------------------------------
(* datetime: a day ordinal (date.toordinal) and whether the time of day is
   past midnight (tod = 0: exactly 00:00:00, tod = 1: later that day) *)

IsLeap(y) == (y % 4 = 0) /\ ((y % 100 # 0) \/ (y % 400 = 0))

DaysInMonth(y, m) ==
    IF m = 2 THEN (IF IsLeap(y) THEN 29 ELSE 28)
    ELSE IF m \in {4, 6, 9, 11} THEN 30 ELSE 31

DaysBeforeYear(y) ==
    (y - 1) * 365 + ((y - 1) \div 4) - ((y - 1) \div 100) + ((y - 1) \div 400)

RECURSIVE DaysBeforeMonth(_, _)
DaysBeforeMonth(y, m) ==
    IF m = 1 THEN 0 ELSE DaysBeforeMonth(y, m - 1) + DaysInMonth(y, m - 1)

Ordinal(y, m, d) == DaysBeforeYear(y) + DaysBeforeMonth(y, m) + d

DateTime(o, tod) == [ord |-> o, tod |-> tod]

\* mutant: the dates are compared, the time of day is dropped
DtLess_SoloFecha(a, b) == a.ord < b.ord

DtLess(a, b) == a.ord < b.ord \/ (a.ord = b.ord /\ a.tod < b.tod)

\* dt - timedelta(days=n)
DtMinusDays(dt, n) == [ord |-> dt.ord - n, tod |-> dt.tod]

RECURSIVE SplitFrom(_, _, _, _, _)
SplitFrom(s, sep, i, cur, acc) ==
    IF i > Len(s) THEN Append(acc, cur)
    ELSE IF s[i] = sep THEN SplitFrom(s, sep, i + 1, <<>>, Append(acc, cur))
    ELSE SplitFrom(s, sep, i + 1, Append(cur, s[i]), acc)

\* the pieces of s between the occurrences of the literal separator
Split(s, sep) == SplitFrom(s, sep, 1, <<>>, <<>>)

\* strptime's %d: 3[0-1]|[1-2]\d|0[1-9]|[1-9]| [1-9]
MatchDay(p) ==
    \/ Len(p) = 1 /\ IsDigit(p[1]) /\ p[1] # "0"
    \/ Len(p) = 2 /\ p[1] = " " /\ IsDigit(p[2]) /\ p[2] # "0"
    \/ Len(p) = 2 /\ AllDigits(p) /\ DigitsValue(p) \in 1..31

\* strptime's %m: 1[0-2]|0[1-9]|[1-9]
MatchMonth(p) ==
    \/ Len(p) = 1 /\ IsDigit(p[1]) /\ p[1] # "0"
    \/ Len(p) = 2 /\ AllDigits(p) /\ DigitsValue(p) \in 1..12

\* strptime's %Y: \d\d\d\d
MatchYear(p) == Len(p) = 4 /\ AllDigits(p)

FieldValue(p) == DigitsValue(OnlyDigits(p))

NoDate == [ok |-> FALSE, dt |-> DateTime(0, 0)]

\* the four formats tried in order: '%d/%m/%Y', '%d-%m-%Y', '%Y-%m-%d', '%Y/%m/%d'
DateFormats ==
    << [sep |-> "/", ymd |-> FALSE], [sep |-> "-", ymd |-> FALSE],
       [sep |-> "-", ymd |-> TRUE], [sep |-> "/", ymd |-> TRUE] >>

\* datetime.strptime(s, fmt): ok = FALSE stands for ValueError (no match, text
\* left over, year 0, or a day the month does not have)
Strptime(s, fmt) ==
    LET p == Split(s, fmt.sep) IN
    IF Len(p) # 3 THEN NoDate
    ELSE LET ys == IF fmt.ymd THEN p[1] ELSE p[3]
             ds == IF fmt.ymd THEN p[3] ELSE p[1]
         IN IF ~(MatchYear(ys) /\ MatchMonth(p[2]) /\ MatchDay(ds)) THEN NoDate
            ELSE LET y == FieldValue(ys)
                     m == FieldValue(p[2])
                     d == FieldValue(ds)
                 IN IF y < 1 \/ d > DaysInMonth(y, m) THEN NoDate
                    ELSE [ok |-> TRUE, dt |-> DateTime(Ordinal(y, m, d), 0)]

RECURSIVE ParseDateFrom(_, _)
ParseDateFrom(s, i) ==
    IF i > Len(DateFormats) THEN NoDate
    ELSE LET r == Strptime(s, DateFormats[i])
         IN IF r.ok THEN r ELSE ParseDateFrom(s, i + 1)

\* the loop over the formats: the first format that parses wins
ParseDate(s) == ParseDateFrom(s, 1)

-----------------------------------------------------------------------------
(* float(x) *)

NoFloat == [ok |-> FALSE, v |-> 0]

\* float(s) for a str: optional sign, digits, optional point and decimals, of
\* which those after the second are 0 ('900.000' is 900.0); anything else is
\* ValueError (ok = FALSE).  A str with a digit other than 0 after the second
\* decimal denotes a float that is no whole number of hundredths: no input of
\* the model leads to one.
FloatOfStr(s) ==
    LET neg == Len(s) > 0 /\ s[1] = "-"
        body == IF Len(s) > 0 /\ s[1] \in {"-", "+"} THEN Tail(s) ELSE s
        p == Split(body, ".")
        cents == IF Len(p) = 2 THEN SubSeq(p[2], 1, IF Len(p[2]) < 2 THEN Len(p[2]) ELSE 2)
                 ELSE <<>>
    IN IF Len(p) = 1 /\ Len(p[1]) > 0 /\ AllDigits(p[1])
       THEN [ok |-> TRUE, v |-> (IF neg THEN -1 ELSE 1) * 100 * DigitsValue(p[1])]
       ELSE IF Len(p) = 2 /\ AllDigits(p[1]) /\ AllDigits(p[2])
               /\ Len(p[1]) + Len(p[2]) > 0
               /\ \A i \in 3..Len(p[2]) : p[2][i] = "0"
       THEN [ok |-> TRUE,
             v |-> (IF neg THEN -1 ELSE 1)
                   * (100 * DigitsValue(p[1])
                      + (IF Len(cents) = 1 THEN 10 ELSE 1) * DigitsValue(cents))]
       ELSE NoFloat

\* float(x): TypeError for None and lists, ValueError for a non-numeric str
Float(x) ==
    CASE x.t = "num" -> [ok |-> TRUE, v |-> x.v]
      [] x.t = "str" -> FloatOfStr(x.s)
      [] OTHER -> NoFloat

\* float(x) if x else 0
FloatOrZero(x) == IF Truthy(x) THEN Float(x) ELSE [ok |-> TRUE, v |-> 0]

Abs(x) == IF x < 0 THEN -x ELSE x

Max(a, b) == IF a > b THEN a ELSE b

-----------------------------------------------------------------------------
(* One finding per rule.  message is the fixed part of the rule's message. *)

Finding(f, v, sev, msg) == [field |-> f, valid |-> v, severity |-> sev, message |-> msg]

\* an exception leaving a rule: validate_invoice does not catch it
Raise(exc) == [field |-> "", valid |-> FALSE, severity |-> "raised", message |-> exc]

\* 365*5
CincoAnios == 365 * 5

\* Rule 1
validate_fecha_emision(fecha, t) ==
    LET field == "Fecha de Emision" IN
    IF ~Truthy(fecha) \/ InNAList(fecha)
    THEN Finding(field, FALSE, "error", "Fecha de emision no encontrada o vacia")
    ELSE LET fecha_parsed == ParseDate(StrOf(fecha)) IN
         IF ~fecha_parsed.ok
         THEN Finding(field, FALSE, "error", "Formato de fecha no reconocido")
         ELSE IF DtLess(t, fecha_parsed.dt)
         THEN Finding(field, FALSE, "error", "La fecha de emision es futura")
         ELSE IF DtLess(fecha_parsed.dt, DtMinusDays(t, CincoAnios))
         THEN Finding(field, FALSE, "warning", "La fecha de emision tiene mas de 5 anios")
         ELSE Finding(field, TRUE, "success", "Fecha de emision valida")

primos == <<3, 7, 13, 17, 19, 23, 29, 37, 41, 43, 47, 53, 59, 67, 71>>

RECURSIVE Zeros(_)
Zeros(n) == IF n <= 0 THEN <<>> ELSE <<"0">> \o Zeros(n - 1)

\* str.zfill(width)
Zfill(s, width) == Zeros(width - Len(s)) \o s

RECURSIVE SumaPonderada(_, _)
\* sum(int(nit[i]) * primos[i] for i in range(n)), with 1-based positions
SumaPonderada(nit, n) ==
    IF n = 0 THEN 0
    ELSE SumaPonderada(nit, n - 1) + DigitVal(nit[n]) * primos[n]

calcular_digito_verificacion(nit_base) ==
    LET nit == Zfill(nit_base, 15)
        suma == SumaPonderada(nit, 15)
        residuo == suma % 11
    IN IF residuo = 0 THEN 0
       ELSE IF residuo = 1 THEN 1
       ELSE 11 - residuo

\* Rule 2
\* mutant: a missing NIT is reported as a warning
validate_nit_AusenteWarning(nit) ==
    LET field == "NIT Emisor" IN
    IF ~Truthy(nit) \/ InNAList(nit)
    THEN Finding(field, FALSE, "warning", "NIT del emisor no encontrado")
    ELSE LET nit_limpio == OnlyDigits(StrOf(nit)) IN
         IF Len(nit_limpio) < 9
         THEN Finding(field, FALSE, "error", "NIT muy corto")
         ELSE IF Len(nit_limpio) >= 10
                 /\ DigitVal(nit_limpio[Len(nit_limpio)])
                    # calcular_digito_verificacion(SubSeq(nit_limpio, 1, Len(nit_limpio) - 1))
         THEN Finding(field, FALSE, "warning", "Digito de verificacion incorrecto")
         ELSE Finding(field, TRUE, "success", "NIT valido")

validate_nit(nit) ==
    LET field == "NIT Emisor" IN
    IF ~Truthy(nit) \/ InNAList(nit)
    THEN Finding(field, FALSE, "error", "NIT del emisor no encontrado")
    ELSE LET nit_limpio == OnlyDigits(StrOf(nit)) IN
         IF Len(nit_limpio) < 9
         THEN Finding(field, FALSE, "error", "NIT muy corto")
         ELSE IF Len(nit_limpio) >= 10
                 /\ DigitVal(nit_limpio[Len(nit_limpio)])
                    # calcular_digito_verificacion(SubSeq(nit_limpio, 1, Len(nit_limpio) - 1))
         THEN Finding(field, FALSE, "warning", "Digito de verificacion incorrecto")
         ELSE Finding(field, TRUE, "success", "NIT valido")

\* mutant: a missing CUFE is reported as an error
validate_cufe_AusenteError(cufe) ==
    LET field == "CUFE" IN
    IF ~Truthy(cufe) \/ InNAList(cufe)
    THEN Finding(field, FALSE, "error", "CUFE no encontrado")
    ELSE IF Len(OnlyHex(StrOf(cufe))) \notin {96, 128}
    THEN Finding(field, FALSE, "warning", "Longitud de CUFE invalida")
    ELSE Finding(field, TRUE, "success", "CUFE valido")

\* Rule 3
validate_cufe(cufe) ==
    LET field == "CUFE" IN
    IF ~Truthy(cufe) \/ InNAList(cufe)
    THEN Finding(field, FALSE, "warning", "CUFE no encontrado")
    ELSE LET cufe_limpio == OnlyHex(StrOf(cufe)) IN
         IF Len(cufe_limpio) \notin {96, 128}
         THEN Finding(field, FALSE, "warning", "Longitud de CUFE invalida")
         ELSE Finding(field, TRUE, "success", "CUFE valido")

\* mutant: the margin is 10% of the total
validate_totales_Margen10(subtotal_in, iva_in, total_in) ==
    LET field == "Coherencia de Totales"
        subtotal == FloatOrZero(subtotal_in)
        iva == FloatOrZero(iva_in)
        total == FloatOrZero(total_in)
    IN IF ~(subtotal.ok /\ iva.ok /\ total.ok)
       THEN Finding(field, FALSE, "error", "No se pudieron convertir los valores numericos")
       ELSE IF total.v = 0
       THEN Finding(field, FALSE, "error", "Total de factura es 0 o no encontrado")
       ELSE IF 10 * Abs(subtotal.v + iva.v - total.v) > total.v
       THEN Finding(field, FALSE, "error", "Totales no coinciden")
       ELSE Finding(field, TRUE, "success", "Totales coherentes")

\* Rule 4.  diferencia > total * 0.01 is 100 * diferencia > total
validate_totales(subtotal_in, iva_in, total_in) ==
    LET field == "Coherencia de Totales"
        subtotal == FloatOrZero(subtotal_in)
        iva == FloatOrZero(iva_in)
        total == FloatOrZero(total_in)
    IN IF ~(subtotal.ok /\ iva.ok /\ total.ok)
       THEN Finding(field, FALSE, "error", "No se pudieron convertir los valores numericos")
       ELSE IF total.v = 0
       THEN Finding(field, FALSE, "error", "Total de factura es 0 o no encontrado")
       ELSE LET suma_calculada == subtotal.v + iva.v
                diferencia == Abs(suma_calculada - total.v)
            IN IF 100 * diferencia > total.v
               THEN Finding(field, FALSE, "error", "Totales no coinciden")
               ELSE Finding(field, TRUE, "success", "Totales coherentes")

tasas_validas == <<0, 5, 19>>

\* |x - porcentaje_iva| for a rate x, times subtotal (> 0)
DistanciaTasa(x, subtotal, iva) == Abs(100 * iva - x * subtotal)

\* min(tasas_validas, key=lambda x: abs(x - porcentaje_iva)): the first minimum
tasa_cercana(subtotal, iva) ==
    LET i == CHOOSE i \in 1..Len(tasas_validas) :
                 /\ \A j \in 1..Len(tasas_validas) :
                        DistanciaTasa(tasas_validas[i], subtotal, iva)
                            <= DistanciaTasa(tasas_validas[j], subtotal, iva)
                 /\ \A j \in 1..(i - 1) :
                        DistanciaTasa(tasas_validas[j], subtotal, iva)
                            > DistanciaTasa(tasas_validas[i], subtotal, iva)
    IN tasas_validas[i]

\* mutant: only a negative subtotal is refused, so a subtotal of 0 divides by zero
validate_iva_porcentaje_DivideCero(subtotal_in, iva_in) ==
    LET field == "Porcentaje IVA"
        subtotal == FloatOrZero(subtotal_in)
        iva == FloatOrZero(iva_in)
    IN IF ~(subtotal.ok /\ iva.ok)
       THEN Finding(field, FALSE, "warning", "No se pudieron calcular porcentajes de IVA")
       ELSE IF subtotal.v < 0
       THEN Finding(field, TRUE, "warning", "Subtotal es 0, no se puede calcular % IVA")
       ELSE IF subtotal.v = 0
       THEN Raise("ZeroDivisionError")
       ELSE IF 1000 * iva.v > 195 * subtotal.v
       THEN Finding(field, FALSE, "error", "IVA excede el maximo permitido")
       ELSE IF DistanciaTasa(tasa_cercana(subtotal.v, iva.v), subtotal.v, iva.v) > subtotal.v
       THEN Finding(field, TRUE, "warning", "IVA no es tasa estandar")
       ELSE Finding(field, TRUE, "success", "IVA valido")

\* Rule 5.  iva / subtotal * 100 > 19.5 is 1000 * iva > 195 * subtotal
validate_iva_porcentaje(subtotal_in, iva_in) ==
    LET field == "Porcentaje IVA"
        subtotal == FloatOrZero(subtotal_in)
        iva == FloatOrZero(iva_in)
    IN IF ~(subtotal.ok /\ iva.ok)
       THEN Finding(field, FALSE, "warning", "No se pudieron calcular porcentajes de IVA")
       ELSE IF subtotal.v <= 0
       THEN Finding(field, TRUE, "warning", "Subtotal es 0, no se puede calcular % IVA")
       ELSE IF 1000 * iva.v > 195 * subtotal.v
       THEN Finding(field, FALSE, "error", "IVA excede el maximo permitido")
       ELSE IF DistanciaTasa(tasa_cercana(subtotal.v, iva.v), subtotal.v, iva.v) > subtotal.v
       THEN Finding(field, TRUE, "warning", "IVA no es tasa estandar")
       ELSE Finding(field, TRUE, "success", "IVA valido")

-----------------------------------------------------------------------------
(* Rules 6 to 10 *)

Dict(d) == [t |-> "dict", d |-> d]

\* str.replace(',', '')
SinComas(s) == SelectSeq(s, LAMBDA c : c # ",")

\* what one item adds to suma_items: float(str(total).replace(',', '')) when
\* item.get('total', 0) is truthy and converts, nothing otherwise
TotalItem(item) ==
    LET total_item == IF "total" \in DOMAIN item.d THEN item.d.total ELSE Num(0)
        f == FloatOfStr(SinComas(StrOf(total_item)))
    IN IF Truthy(total_item) /\ f.ok THEN f.v ELSE 0

RECURSIVE SumaItems(_)
SumaItems(l) == IF Len(l) = 0 THEN 0 ELSE TotalItem(Head(l)) + SumaItems(Tail(l))

\* mutant: the margin is 2% of the subtotal, without the minimum of 1
validate_suma_items_SinMinimo(items, subtotal_in) ==
    LET field == "Suma de Items" IN
    IF items.t = "num" /\ Truthy(items)
    THEN Raise("TypeError: object has no len()")
    ELSE IF ~Truthy(items)
    THEN Finding(field, TRUE, "warning", "No se encontraron items para validar")
    ELSE LET subtotal == FloatOrZero(subtotal_in) IN
         IF \/ ~subtotal.ok
            \/ items.t = "str"
            \/ \E i \in 1..Len(items.l) : items.l[i].t # "dict"
         THEN Finding(field, FALSE, "warning", "Error al validar items")
         ELSE LET suma_items == SumaItems(items.l)
                  diferencia == Abs(suma_items - subtotal.v)
              IN IF suma_items = 0
                 THEN Finding(field, TRUE, "warning", "No se pudieron sumar los items")
                 ELSE IF 100 * diferencia > 2 * subtotal.v
                 THEN Finding(field, FALSE, "warning", "Suma de items no coincide con subtotal")
                 ELSE Finding(field, TRUE, "success", "Suma de items coincide con subtotal")

\* Rule 6.  diferencia > max(subtotal * 0.02, 1) is
\* 100 * diferencia > max(2 * subtotal, 100 * 1.00)
validate_suma_items(items, subtotal_in) ==
    LET field == "Suma de Items" IN
    IF items.t = "num" /\ Truthy(items)
    THEN Raise("TypeError: object has no len()")
    ELSE IF ~Truthy(items)
    THEN Finding(field, TRUE, "warning", "No se encontraron items para validar")
    ELSE LET subtotal == FloatOrZero(subtotal_in) IN
         IF \/ ~subtotal.ok
            \/ items.t = "str"
            \/ \E i \in 1..Len(items.l) : items.l[i].t # "dict"
         THEN Finding(field, FALSE, "warning", "Error al validar items")
         ELSE LET suma_items == SumaItems(items.l)
                  diferencia == Abs(suma_items - subtotal.v)
              IN IF suma_items = 0
                 THEN Finding(field, TRUE, "warning", "No se pudieron sumar los items")
                 ELSE IF 100 * diferencia > Max(2 * subtotal.v, 100 * 100)
                 THEN Finding(field, FALSE, "warning", "Suma de items no coincide con subtotal")
                 ELSE Finding(field, TRUE, "success", "Suma de items coincide con subtotal")

\* self.kb.search(...) seen from the validator: there is no knowledge base, the
\* search finds something, finds nothing, or raises
KBModes == {"none", "hit", "empty", "raises"}

\* if self.kb: try: resultados = self.kb.search(...); if resultados: ...
KBFound(k) == k = "hit"

\* mutant: a code that is too short fails with the severity of the passing branch
validate_actividad_economica_CortoSuccess(actividad, k) ==
    LET field == "Actividad Economica" IN
    IF ~Truthy(actividad) \/ InNAList(actividad)
    THEN Finding(field, TRUE, "warning", "Codigo de actividad economica no especificado")
    ELSE IF Len(OnlyDigits(StrOf(actividad))) < 4
    THEN Finding(field, FALSE, "success", "Codigo de actividad muy corto")
    ELSE Finding(field, TRUE, "success", "Formato de actividad economica valido")

\* Rule 7
validate_actividad_economica(actividad, k) ==
    LET field == "Actividad Economica" IN
    IF ~Truthy(actividad) \/ InNAList(actividad)
    THEN Finding(field, TRUE, "warning", "Codigo de actividad economica no especificado")
    ELSE IF Len(OnlyDigits(StrOf(actividad))) < 4
    THEN Finding(field, FALSE, "warning", "Codigo de actividad muy corto")
    ELSE IF KBFound(k)
    THEN Finding(field, TRUE, "success", "Actividad economica validada en base de conocimiento")
    ELSE Finding(field, TRUE, "success", "Formato de actividad economica valido")

\* Rule 8.  retencion (a fraction below 1) * 100 > 15 is retencion.v > 15 on
\* the hundredths; retencion / subtotal * 100 > 15 is 100 * retencion > 15 * subtotal
validate_retencion_fuente(retencion_in, subtotal_in) ==
    LET field == "Retencion en la Fuente"
        retencion == FloatOrZero(retencion_in)
        subtotal == FloatOrZero(subtotal_in)
    IN IF ~(retencion.ok /\ subtotal.ok)
       THEN Finding(field, TRUE, "warning", "No se pudo validar retencion en la fuente")
       ELSE IF subtotal.v <= 0
       THEN Finding(field, TRUE, "warning", "Subtotal es 0, no se puede validar retencion")
       ELSE IF retencion.v <= 0
       THEN Finding(field, TRUE, "success", "Sin retencion en la fuente aplicada")
       ELSE IF \/ retencion.v < 100 /\ retencion.v > 15
               \/ retencion.v >= 100 /\ 100 * retencion.v > 15 * subtotal.v
       THEN Finding(field, FALSE, "warning", "Retencion muy alta")
       ELSE Finding(field, TRUE, "success", "Retencion en la fuente")

\* mutant: a due date equal to the issue date is an error too
validate_fecha_limite_pago_MismoDia(fecha_emision, fecha_limite) ==
    LET field == "Fecha Limite de Pago" IN
    IF ~Truthy(fecha_limite) \/ InNAList(fecha_limite)
    THEN Finding(field, TRUE, "warning", "Fecha limite de pago no especificada")
    ELSE IF ~Truthy(fecha_emision) \/ InNAList(fecha_emision)
    THEN Finding(field, TRUE, "warning", "No se puede validar sin fecha de emision")
    ELSE LET fecha_em_parsed == ParseDate(StrOf(fecha_emision))
             fecha_lim_parsed == ParseDate(StrOf(fecha_limite))
         IN IF ~fecha_em_parsed.ok \/ ~fecha_lim_parsed.ok
            THEN Finding(field, TRUE, "warning", "No se pudieron parsear las fechas")
            ELSE IF fecha_lim_parsed.dt.ord <= fecha_em_parsed.dt.ord
            THEN Finding(field, FALSE, "error", "Fecha limite anterior a emision")
            ELSE IF fecha_lim_parsed.dt.ord - fecha_em_parsed.dt.ord > 180
            THEN Finding(field, TRUE, "warning", "Plazo de pago muy largo")
            ELSE Finding(field, TRUE, "success", "Plazo de pago")

\* Rule 9
validate_fecha_limite_pago(fecha_emision, fecha_limite) ==
    LET field == "Fecha Limite de Pago" IN
    IF ~Truthy(fecha_limite) \/ InNAList(fecha_limite)
    THEN Finding(field, TRUE, "warning", "Fecha limite de pago no especificada")
    ELSE IF ~Truthy(fecha_emision) \/ InNAList(fecha_emision)
    THEN Finding(field, TRUE, "warning", "No se puede validar sin fecha de emision")
    ELSE LET fecha_em_parsed == ParseDate(StrOf(fecha_emision))
             fecha_lim_parsed == ParseDate(StrOf(fecha_limite))
         IN IF ~fecha_em_parsed.ok \/ ~fecha_lim_parsed.ok
            THEN Finding(field, TRUE, "warning", "No se pudieron parsear las fechas")
            ELSE IF DtLess(fecha_lim_parsed.dt, fecha_em_parsed.dt)
            THEN Finding(field, FALSE, "error", "Fecha limite anterior a emision")
            ELSE IF fecha_lim_parsed.dt.ord - fecha_em_parsed.dt.ord > 180
            THEN Finding(field, TRUE, "warning", "Plazo de pago muy largo")
            ELSE Finding(field, TRUE, "success", "Plazo de pago")

\* mutant: the search is not wrapped in try/except
validate_resolucion_dian_SinTry(numero_factura, proveedor, k) ==
    LET field == "Resolucion DIAN" IN
    IF ~Truthy(numero_factura) \/ InNAList(numero_factura)
    THEN Finding(field, TRUE, "warning", "Numero de factura no disponible para validar resolucion")
    ELSE IF k = "raises"
    THEN Raise("the exception of kb.search")
    ELSE IF KBFound(k)
    THEN Finding(field, TRUE, "success", "Proveedor encontrado en base de conocimiento")
    ELSE Finding(field, TRUE, "warning", "No se pudo validar resolucion DIAN")

\* Rule 10
validate_resolucion_dian(numero_factura, proveedor, k) ==
    LET field == "Resolucion DIAN" IN
    IF ~Truthy(numero_factura) \/ InNAList(numero_factura)
    THEN Finding(field, TRUE, "warning", "Numero de factura no disponible para validar resolucion")
    ELSE IF KBFound(k)
    THEN Finding(field, TRUE, "success", "Proveedor encontrado en base de conocimiento")
    ELSE Finding(field, TRUE, "warning", "No se pudo validar resolucion DIAN")

-----------------------------------------------------------------------------
(* validate_invoice *)

\* the ten rule calls, in the order of the code
RunRules(d, k, t) ==
    << validate_fecha_emision(Get(d, "fecha_emision"), t),
       validate_nit(Get(d, "nit_emisor")),
       validate_cufe(Get(d, "cufe")),
       validate_totales(GetDefault(d, "subtotal", Num(0)), GetDefault(d, "iva", Num(0)),
                        GetDefault(d, "total", Num(0))),
       validate_iva_porcentaje(GetDefault(d, "subtotal", Num(0)), GetDefault(d, "iva", Num(0))),
       validate_suma_items(GetDefault(d, "items", List(<<>>)), GetDefault(d, "subtotal", Num(0))),
       validate_actividad_economica(Get(d, "actividad_economica"), k),
       validate_retencion_fuente(Get(d, "retencion_fuente"), GetDefault(d, "subtotal", Num(0))),
       validate_fecha_limite_pago(Get(d, "fecha_emision"), Get(d, "fecha_limite_pago")),
       validate_resolucion_dian(Get(d, "numero_factura"), Get(d, "proveedor"), k) >>

Messages(fs) == [i \in 1..Len(fs) |-> fs[i].message]

\* mutant: every failed finding is collected as an error
CollectErrors_Todos(validations) ==
    Messages(SelectSeq(validations, LAMBDA v : ~v.valid))

\* if not val['valid']: errors.append(...) if val['severity'] == 'error'
CollectErrors(validations) ==
    Messages(SelectSeq(validations, LAMBDA v : ~v.valid /\ v.severity = "error"))

\* mutant: every finding of severity warning is collected, passed or not
CollectWarnings_ConAprobadas(validations) ==
    Messages(SelectSeq(validations, LAMBDA v : v.severity = "warning"))

\* ... else: warnings.append(...)
CollectWarnings(validations) ==
    Messages(SelectSeq(validations, LAMBDA v : ~v.valid /\ v.severity # "error"))

\* mutant: the warnings are not looked at
Recommendation_SinWarnings(is_valid, warnings) ==
    IF is_valid THEN "Factura lista para procesamiento"
    ELSE "Factura requiere revision manual"

Recommendation(is_valid, warnings) ==
    IF is_valid /\ Len(warnings) = 0 THEN "Factura lista para procesamiento"
    ELSE IF is_valid THEN "Factura valida con advertencias menores"
    ELSE "Factura requiere revision manual"

\* mutant: the score counts the findings of severity success
BuildReport_CuentaSuccess(validations) ==
    LET errors == CollectErrors(validations)
        warnings == CollectWarnings(validations)
        valid_count == Len(SelectSeq(validations, LAMBDA v : v.severity = "success"))
        is_valid == Len(errors) = 0
    IN [valid |-> is_valid,
        confidence_score |-> [num |-> valid_count, den |-> Len(validations)],
        errors |-> errors,
        warnings |-> warnings,
        validations |-> validations,
        recommendation |-> Recommendation(is_valid, warnings),
        total_validations |-> Len(validations),
        passed_validations |-> valid_count]

\* the dict validate_invoice returns; confidence_score is the fraction
\* valid_count / len(validations), kept as numerator and denominator
BuildReport(validations) ==
    LET errors == CollectErrors(validations)
        warnings == CollectWarnings(validations)
        valid_count == Len(SelectSeq(validations, LAMBDA v : v.valid))
        is_valid == Len(errors) = 0
    IN [valid |-> is_valid,
        confidence_score |-> [num |-> valid_count, den |-> Len(validations)],
        errors |-> errors,
        warnings |-> warnings,
        validations |-> validations,
        recommendation |-> Recommendation(is_valid, warnings),
        total_validations |-> Len(validations),
        passed_validations |-> valid_count]

\* whether some rule lets an exception out
Raises(validations) == \E i \in 1..Len(validations) : validations[i].severity = "raised"

NoReport == [valid |-> FALSE]

-----------------------------------------------------------------------------
(* The records the validator is given.  A field holds what the record type
   allows (a str, a float, a list of item dicts) or one of the degenerate
   values: the key missing, None, 'N/A', '', a non-numeric str. *)

D2(n) == <<DigitChar(n \div 10), DigitChar(n % 10)>>

\* 'YYYY<sep>MM<sep>DD'
FechaYMD(y, m, d, sep) == NatDigits(y) \o <<sep>> \o D2(m) \o <<sep>> \o D2(d)

\* 'DD<sep>MM<sep>YYYY'
FechaDMY(y, m, d, sep) == D2(d) \o <<sep>> \o D2(m) \o <<sep>> \o NatDigits(y)

Texto == <<"a", "b", "c">>

\* the clock when the run starts: 2024-03-15 00:00:00
Clock0 == DateTime(Ordinal(2024, 3, 15), 0)

\* issue dates around the clock: today, tomorrow, 1824, 1825 and 1826 days back
Fechas ==
    { Missing, None, Str(NA), Str(<<>>), Str(Texto), Num(202403),
      Str(FechaYMD(2024, 3, 15, "-")), Str(FechaDMY(2024, 3, 16, "/")),
      Str(FechaYMD(2024, 3, 17, "/")), Str(FechaDMY(2024, 3, 10, "-")),
      Str(FechaYMD(2019, 3, 18, "-")), Str(FechaDMY(2019, 3, 17, "-")),
      Str(FechaYMD(2019, 3, 16, "-")), Str(FechaYMD(2024, 2, 30, "-")),
      Str(<<"1", "/", "2", "/", "2", "0", "2", "4">>),
      Str(<<"0", "0", "0", "0", "-", "0", "1", "-", "0", "1">>),
      Str(<<"1", "5", "-", "0", "3", "-", "2", "4">>) }

FechasLimite ==
    { Missing, None, Str(NA), Str(Texto),
      Str(FechaYMD(2024, 4, 9, "-")), Str(FechaDMY(2024, 3, 10, "/")),
      Str(FechaYMD(2024, 3, 9, "-")), Str(FechaDMY(2024, 12, 31, "/")),
      Str(FechaYMD(2019, 3, 17, "-")), Str(FechaYMD(2024, 2, 30, "-")) }

\* base digits, separator, check digit
NitStr(base, sep, dv) == NatDigits(base) \o sep \o <<DigitChar(dv)>>

\* 890903938-8 and 800197268-4 carry the check digit of the NIT scheme
Nits ==
    { Missing, None, Str(NA), Str(<<>>), Str(Texto), Num(12345),
      Str(NatDigits(12345678)), Str(NatDigits(900123456)),
      Str(NitStr(900123456, <<"-">>, 8)), Str(NitStr(900123456, <<"-">>, 7)),
      Str(NitStr(890903938, <<"-">>, 8)), Str(NitStr(890903938, <<"-">>, 9)),
      Str(NitStr(800197268, <<>>, 4)), Str(NitStr(800197268, <<>>, 1)),
      Str(NitStr(860002964, <<".">>, 4)), Str(NitStr(860002964, <<".">>, 5)),
      Str(NitStr(123456789, <<"-">>, 6)), Str(NitStr(123456789, <<"-">>, 2)),
      Str(NitStr(123456789, <<"-">>, 0)),
      Str(<<"N", "I", "T", " ">> \o NitStr(830000000, <<"-">>, 0)) }

Hex(n) == [i \in 1..n |-> IF i % 2 = 0 THEN "a" ELSE "7"]

Cufes == { Missing, None, Str(NA), Str(Hex(96)), Str(Hex(128)), Str(Hex(64)),
           Str(Hex(95) \o <<"-", "F">>), Num(12345) }

Uno0000 == <<"1", "0", "0", ".", "0", "0">>

Subtotales == { Missing, None, Num(0), Num(10000), Num(-10000), Str(Texto), Str(Uno0000) }

Ivas == { Missing, Num(0), Num(100), Num(101), Num(500), Num(601), Num(1000),
          Num(1900), Num(1950), Num(1951), Num(2500), Num(-500), Str(Texto) }

Totales == { Missing, None, Num(0), Num(10000), Num(10100), Num(11900), Num(12020),
             Num(12021), Num(11000), Num(12500), Num(-10000), Str(Texto), Str(Uno0000) }

Item(v) == Dict([total |-> v])

ItemsOK == List(<<Item(Num(60000)), Item(Num(40000))>>)

ItemLists ==
    { Missing, None, List(<<>>), Str(NA), Str(<<>>), ItemsOK,
      List(<<Item(Str(<<"1", ",", "0", "0", "0", ".", "0", "0">>))>>),
      List(<<Item(Num(60000)), Item(Num(30000))>>),
      List(<<Item(Num(100000)), Item(Str(Texto))>>),
      List(<<Item(None), Item(Num(0))>>),
      List(<<Dict([descripcion |-> Str(Texto)])>>),
      List(<<Item(Num(100000)), Str(Texto)>>),
      List(<<Item(Num(102000))>>), List(<<Item(Num(102001))>>),
      List(<<Item(Num(100))>>), List(<<Item(Num(101))>>) }

Actividades == { Missing, None, Str(NA), Str(NatDigits(4711)), Str(NatDigits(47)),
                 Num(471100), Str(Texto) }

Retenciones == { Missing, None, Num(0), Num(4), Num(15), Num(16), Num(99), Num(100),
                 Num(15000), Num(15001), Num(-4), Str(Texto) }

Numeros == { Missing, None, Str(NA), Str(<<"F", "E", "-", "1">>) }

\* a record every rule passes at Clock0, given a knowledge base that answers
Baseline ==
    [ fecha_emision |-> Str(FechaYMD(2024, 3, 10, "-")),
      nit_emisor |-> Str(NitStr(900123456, <<"-">>, 8)),
      cufe |-> Str(Hex(96)),
      subtotal |-> Num(100000),
      iva |-> Num(19000),
      total |-> Num(119000),
      items |-> ItemsOK,
      actividad_economica |-> Str(NatDigits(4711)),
      retencion_fuente |-> Num(4),
      fecha_limite_pago |-> Str(FechaYMD(2024, 4, 9, "-")),
      numero_factura |-> Str(<<"F", "E", "-", "1">>),
      proveedor |-> Str(Texto) ]

RecordsFechas ==
    { [Baseline EXCEPT !.fecha_emision = f, !.fecha_limite_pago = l] :
        f \in Fechas, l \in FechasLimite }

RecordsNit == { [Baseline EXCEPT !.nit_emisor = n] : n \in Nits }

RecordsTotales ==
    { [Baseline EXCEPT !.subtotal = s, !.iva = i, !.total = t] :
        s \in Subtotales, i \in Ivas, t \in Totales }

RecordsItems ==
    { [Baseline EXCEPT !.items = l, !.subtotal = s] :
        l \in ItemLists, s \in {Num(100000), Num(0), Str(Texto), Missing} }

RecordsOtros ==
    { [Baseline EXCEPT !.cufe = c, !.actividad_economica = a, !.numero_factura = n] :
        c \in Cufes, a \in Actividades, n \in Numeros }

RecordsRetencion ==
    { [Baseline EXCEPT !.retencion_fuente = r, !.subtotal = s] :
        r \in Retenciones, s \in {Num(100000), Num(0), Str(Texto), Missing} }

\* every rule's outcomes against every other rule's
RecordsCruzados ==
    { [ fecha_emision |-> f, nit_emisor |-> n, cufe |-> c,
        subtotal |-> m[1], iva |-> m[2], total |-> m[3],
        items |-> l, actividad_economica |-> a, retencion_fuente |-> r,
        fecha_limite_pago |-> p, numero_factura |-> q, proveedor |-> Str(Texto) ] :
        f \in { Str(FechaYMD(2024, 3, 10, "-")), None, Str(FechaYMD(2010, 1, 1, "-")) },
        n \in { Str(NitStr(900123456, <<"-">>, 8)), Str(NA),
                Str(NitStr(900123456, <<"-">>, 7)) },
        c \in { Str(Hex(96)), Str(NA) },
        m \in { <<Num(100000), Num(19000), Num(119000)>>,
                <<Num(100000), Num(25000), Num(125000)>>,
                <<Missing, Missing, Missing>> },
        l \in { ItemsOK, List(<<Item(Num(60000)), Item(Num(30000))>>) },
        a \in { Str(NatDigits(4711)), Str(NatDigits(47)) },
        r \in { Num(4), Num(16) },
        p \in { Str(FechaYMD(2024, 3, 9, "-")), Missing },
        q \in { Str(<<"F", "E", "-", "1">>), Missing } }

Records ==
    RecordsFechas \cup RecordsNit \cup RecordsTotales \cup RecordsItems
        \cup RecordsRetencion \cup RecordsOtros \cup RecordsCruzados

\* the knowledge bases a record is validated with: every behaviour for the
\* records that vary what rules 7 and 10 read, none or an answering one otherwise
KBModesFor(d) ==
    IF d \in RecordsOtros \cup RecordsCruzados THEN KBModes ELSE {"none", "hit"}

-----------------------------------------------------------------------------
(* The state machine: a validator holding kb is given the record data at the
   time now. *)

MaxTicks == 1

Init ==
    /\ data \in Records
    /\ kb \in KBModesFor(data)
    /\ now = Clock0
    /\ ticks = 0
    /\ pc = "ready"
    /\ report = NoReport
    /\ ocr_text = <<>>
    /\ runs = <<>>
    /\ factura_files = <<>>
    /\ validator = "none"
    /\ idx = 0
    /\ all_results = <<>>
    /\ json_output_dir = <<>>
    /\ SinIntake /\ SinExtractor /\ SinLlm

\* time passes before the call: to later the same day, then to the next midnight
Tick ==
    /\ pc = "ready"
    /\ ticks < MaxTicks
    /\ now' = IF now.tod = 0 THEN DateTime(now.ord, 1) ELSE DateTime(now.ord + 1, 0)
    /\ ticks' = ticks + 1
    /\ UNCHANGED <<data, kb, pc, report, pipeline_vars, batch_vars, intake_vars, extractor_vars, llm_vars>>

\* InvoiceValidator.validate_invoice(data): the report, or the exception of a rule
validate_invoice ==
    /\ pc = "ready"
    /\ LET validations == RunRules(data, kb, now) IN
       IF Raises(validations)
       THEN pc' = "raised" /\ report' = NoReport
       ELSE pc' = "done" /\ report' = BuildReport(validations)
    /\ UNCHANGED <<data, kb, now, ticks, pipeline_vars, batch_vars, intake_vars, extractor_vars, llm_vars>>

Next == Tick \/ validate_invoice

Spec == Init /\ [][Next]_vars

-----------------------------------------------------------------------------
(* Properties of validate_invoice *)

Done == pc = "done"

RuleFields ==
    << "Fecha de Emision", "NIT Emisor", "CUFE", "Coherencia de Totales", "Porcentaje IVA",
       "Suma de Items", "Actividad Economica", "Retencion en la Fuente",
       "Fecha Limite de Pago", "Resolucion DIAN" >>

Severities(r) == { r.validations[i].severity : i \in 1..Len(r.validations) }

FailedSeverities(r) ==
    { r.validations[i].severity : i \in { j \in 1..Len(r.validations) : ~r.validations[j].valid } }

C1_WitnessKB ==
    /\ Done /\ kb = "raises"
    /\ data.numero_factura # Missing /\ data.cufe = Str(NA)
    /\ Len(report.validations) = 10

\* C2: the report's valid is true exactly when no finding has severity error.
C2_ValidIffNoError == Done => (report.valid <=> "error" \notin Severities(report))

\* a valid report with failed findings, none of them an error
C2_Witness == Done /\ report.valid /\ Len(report.warnings) > 0

\* C3 as stated: ready exactly when no finding has severity error or warning,
\* ready-with-warnings exactly when none has error and one has warning,
\* needs-review exactly when one has error.
C3_Original ==
    Done =>
        /\ report.recommendation = "Factura lista para procesamiento"
               <=> Severities(report) \cap {"error", "warning"} = {}
        /\ report.recommendation = "Factura valida con advertencias menores"
               <=> ("error" \notin Severities(report) /\ "warning" \in Severities(report))
        /\ report.recommendation = "Factura requiere revision manual"
               <=> "error" \in Severities(report)

\* C3 amended: the recommendation is driven by the severities of the failed
\* findings (valid = false): ready exactly when no finding failed,
\* ready-with-warnings exactly when no failed finding has severity error and
\* at least one finding failed, needs-review exactly when a finding has
\* severity error.
C3_Recommendation ==
    Done =>
        /\ report.recommendation = "Factura lista para procesamiento"
               <=> FailedSeverities(report) = {}
        /\ report.recommendation = "Factura valida con advertencias menores"
               <=> ("error" \notin FailedSeverities(report) /\ FailedSeverities(report) # {})
        /\ report.recommendation = "Factura requiere revision manual"
               <=> "error" \in Severities(report)

\* a report recommended as ready although a finding that passed has severity warning
C3_Witness ==
    /\ Done
    /\ report.recommendation = "Factura lista para procesamiento"
    /\ "warning" \in Severities(report)

C4_WitnessBoundary ==
    /\ Done
    /\ data.subtotal = Num(10000) /\ data.iva = Num(100) /\ data.total = Num(10000)
    /\ report.validations[4].valid

\* the check digit of the Colombian NIT scheme: the weights 3, 7, 13, ... are
\* given to the base digits from the rightmost one leftwards
RECURSIVE SumaNIT(_, _)
SumaNIT(base, k) ==
    IF k = 0 THEN 0
    ELSE SumaNIT(base, k - 1) + DigitVal(base[Len(base) - k + 1]) * primos[k]

DigitoNIT(base) ==
    LET r == SumaNIT(base, Len(base)) % 11 IN IF r < 2 THEN r ELSE 11 - r

\* C5: for a tax id of at least 10 digits rule 2 passes exactly when the last
\* digit is the check digit the NIT scheme derives from the digits before it,
\* and any other last digit gives severity warning; an absent tax id gives
\* severity error.
C5_NitCheckDigit ==
    Done =>
        LET f == report.validations[2]
            nit == Get(data, "nit_emisor")
            absent == ~Truthy(nit) \/ InNAList(nit)
            digits == OnlyDigits(StrOf(nit))
        IN /\ absent => f.severity = "error"
           /\ (~absent /\ Len(digits) >= 10 /\ Len(digits) <= 16) =>
                LET dv == DigitVal(digits[Len(digits)])
                    expected == DigitoNIT(SubSeq(digits, 1, Len(digits) - 1))
                IN /\ f.valid <=> dv = expected
                   /\ dv # expected => f.severity = "warning"

\* C6: rule 5 reads subtotal and iva only: its finding is the one it gives for
\* the same two amounts in the baseline record, without a knowledge base, at
\* the initial clock.  A rate above 19.5% of a positive subtotal is an error; a
\* rate within the ceiling more than one point away from 0, 5 and 19 is a
\* warning; a subtotal of zero or less is a warning that passes, and no
\* exception.
C6_IvaPorcentaje ==
    pc # "ready" =>
        /\ Done
        /\ LET f == report.validations[5]
               s == FloatOrZero(GetDefault(data, "subtotal", Num(0)))
               i == FloatOrZero(GetDefault(data, "iva", Num(0)))
           IN /\ f = RunRules([Baseline EXCEPT !.subtotal = data.subtotal, !.iva = data.iva],
                              "none", Clock0)[5]
              /\ (s.ok /\ i.ok /\ s.v > 0 /\ 1000 * i.v > 195 * s.v) => f.severity = "error"
              /\ ( /\ s.ok /\ i.ok /\ s.v > 0 /\ 1000 * i.v <= 195 * s.v
                   /\ \A x \in {0, 5, 19} : Abs(100 * i.v - x * s.v) > s.v )
                    => f.severity = "warning"
              /\ (s.ok /\ i.ok /\ s.v <= 0) => (f.severity = "warning" /\ f.valid)

\* a rate of 25% while the total is not even a number
C6_Witness ==
    /\ Done
    /\ data.subtotal = Num(10000) /\ data.iva = Num(2500) /\ data.total = Str(Texto)
    /\ report.validations[5].severity = "error"

\* a subtotal of zero: the rule answers with its warning
C6_WitnessCero ==
    /\ Done
    /\ data.subtotal = Num(0) /\ data.iva = Num(1900)
    /\ report.validations[5].severity = "warning"

\* C7: rule 1 gives severity error when the issue date is missing, parses in
\* none of the formats or is later than the current time; severity warning,
\* not passed, when it is more than 1825 days before the current time; passed
\* with severity success otherwise.
C7_FechaEmision ==
    Done =>
        LET f == report.validations[1]
            fecha == Get(data, "fecha_emision")
            missing == ~Truthy(fecha) \/ InNAList(fecha)
            p == ParseDate(StrOf(fecha))
            future == p.dt.ord > now.ord
            old == \/ now.ord - p.dt.ord > 1825
                   \/ now.ord - p.dt.ord = 1825 /\ now.tod > 0
        IN IF missing \/ ~p.ok \/ future
           THEN f.severity = "error" /\ ~f.valid
           ELSE IF old
           THEN f.severity = "warning" /\ ~f.valid
           ELSE f.severity = "success" /\ f.valid

\* the date exactly 1825 days before today, validated after midnight
C7_Witness ==
    /\ Done
    /\ data.fecha_emision = Str(FechaDMY(2019, 3, 17, "-"))
    /\ now = DateTime(Clock0.ord, 1)
    /\ report.validations[1].severity = "warning"

\* C8: in every finding severity error comes with valid = false and severity
\* success with valid = true.
C8_SeverityPassed ==
    Done =>
        \A i \in 1..Len(report.validations) :
            LET f == report.validations[i]
            IN /\ f.severity = "error" => ~f.valid
               /\ f.severity = "success" => f.valid

\* a report holding an error, a failed warning and a success
C8_Witness ==
    /\ Done
    /\ report.validations[7].severity = "warning" /\ ~report.validations[7].valid
    /\ report.validations[4].severity = "error"
    /\ report.validations[3].severity = "success"

\* C9: rules 3, 6, 7, 8 and 10 never give severity error and never raise,
\* whatever the record and the knowledge base do; a report whose other rules
\* give no error is valid.
C9_NeverError ==
    pc # "ready" =>
        /\ Done
        /\ \A i \in {3, 6, 7, 8, 10} : report.validations[i].severity # "error"
        /\ (\A i \in {1, 2, 4, 5, 9} : report.validations[i].severity # "error") => report.valid

\* rules 3, 6, 7 and 8 all fail, the knowledge base raises, and the report is valid
C9_Witness ==
    /\ Done /\ kb = "raises"
    /\ \A i \in {3, 6, 7, 8} : ~report.validations[i].valid
    /\ report.validations[10].severity = "warning"
    /\ report.valid

\* C10: rule 9 gives severity error exactly when both dates parse and the due
\* date is earlier than the issue date; with the due date or the issue date
\* absent or unparseable it gives severity warning.
C10_FechaLimite ==
    Done =>
        LET f == report.validations[9]
            em == Get(data, "fecha_emision")
            lim == Get(data, "fecha_limite_pago")
            absent == ~Truthy(em) \/ InNAList(em) \/ ~Truthy(lim) \/ InNAList(lim)
            pe == ParseDate(StrOf(em))
            pl == ParseDate(StrOf(lim))
        IN /\ f.severity = "error" <=> (~absent /\ pe.ok /\ pl.ok /\ pl.dt.ord < pe.dt.ord)
           /\ (absent \/ ~pe.ok \/ ~pl.ok) => f.severity = "warning"

\* due on 2024-03-09 for an invoice issued on 2024-03-10
C10_Witness ==
    /\ Done
    /\ data.fecha_emision = Str(FechaDMY(2024, 3, 10, "-"))
    /\ data.fecha_limite_pago = Str(FechaYMD(2024, 3, 9, "-"))
    /\ report.validations[9].severity = "error"

C11_WitnessBoundary ==
    /\ Done
    /\ \/ data.items = List(<<Item(Num(102000))>>) /\ data.subtotal = Num(100000)
       \/ data.items = List(<<Item(Num(100))>>) /\ data.subtotal = Num(0)
    /\ report.validations[6].valid

\* C12: confidence_score is the number of findings that passed over the number
\* of findings, so it lies between 0 and 1 inclusive.
C12_Confidence ==
    Done =>
        LET passed == Cardinality({ i \in 1..Len(report.validations) : report.validations[i].valid })
        IN /\ report.confidence_score.num = passed
           /\ report.confidence_score.den = Len(report.validations)
           /\ report.confidence_score.den > 0
           /\ 0 <= report.confidence_score.num
           /\ report.confidence_score.num <= report.confidence_score.den

\* a report in which some but not all findings passed
C12_Witness ==
    /\ Done
    /\ 0 < report.confidence_score.num
    /\ report.confidence_score.num < report.confidence_score.den

-----------------------------------------------------------------------------
(* Text: a str is the sequence of its characters, "\n" ends a line.  The
   string methods and the re patterns the extraction uses. *)

Digits == {"0", "1", "2", "3", "4", "5", "6", "7", "8", "9"}

LowerSeq == << "a", "b", "c", "d", "e", "f", "g", "h", "i", "j", "k", "l", "m",
               "n", "o", "p", "q", "r", "s", "t", "u", "v", "w", "x", "y", "z" >>

UpperSeq == << "A", "B", "C", "D", "E", "F", "G", "H", "I", "J", "K", "L", "M",
               "N", "O", "P", "Q", "R", "S", "T", "U", "V", "W", "X", "Y", "Z" >>

Lower == { LowerSeq[i] : i \in 1..26 }

Upper == { UpperSeq[i] : i \in 1..26 }

Letters == Lower \cup Upper

\* \w
WordChars == Letters \cup Digits \cup {"_"}

\* \s
Space == {" ", "\t", "\n", "\r"}

\* c.upper()
ToUpper(c) == IF c \in Lower THEN UpperSeq[CHOOSE i \in 1..26 : LowerSeq[i] = c] ELSE c

\* s.upper()
UpperStr(s) == [i \in 1..Len(s) |-> ToUpper(s[i])]

\* the elements of a finite set of integers in increasing order
Sorted(S) == [j \in 1..Cardinality(S) |-> CHOOSE p \in S : Cardinality({q \in S : q < p}) = j - 1]

\* the characters of s at the positions of P, in order
Pick(s, P) == LET orden == Sorted(P) IN [j \in 1..Len(orden) |-> s[orden[j]]]

RECURSIVE Flat(_, _, _)
\* parts[a] \o ... \o parts[b]
Flat(parts, a, b) ==
    IF a > b THEN <<>>
    ELSE IF a = b THEN parts[a]
    ELSE LET mid == (a + b) \div 2 IN Flat(parts, a, mid) \o Flat(parts, mid + 1, b)

\* text.split('\n')
SplitLines(s) ==
    LET nl == Sorted({ i \in 1..Len(s) : s[i] = "\n" })
        from(j) == IF j = 1 THEN 1 ELSE nl[j - 1] + 1
        to(j) == IF j = Len(nl) + 1 THEN Len(s) ELSE nl[j] - 1
    IN [j \in 1..(Len(nl) + 1) |-> SubSeq(s, from(j), to(j))]

\* '\n'.join(lines)
JoinLines(lines) ==
    Flat([j \in 1..Len(lines) |-> IF j = 1 THEN lines[j] ELSE <<"\n">> \o lines[j]], 1, Len(lines))

\* lines[:n]
FirstN(l, n) == SubSeq(l, 1, IF n < Len(l) THEN n ELSE Len(l))

\* lines[-n:]
LastN(l, n) == SubSeq(l, IF Len(l) > n THEN Len(l) - n + 1 ELSE 1, Len(l))

\* s.strip()
Strip(s) ==
    LET keep == { i \in 1..Len(s) : s[i] \notin Space }
    IN IF keep = {} THEN <<>>
       ELSE SubSeq(s, CHOOSE i \in keep : \A j \in keep : i <= j,
                      CHOOSE i \in keep : \A j \in keep : i >= j)

\* s.rstrip('.')
RStripDot(s) ==
    LET keep == { i \in 1..Len(s) : s[i] # "." }
    IN IF keep = {} THEN <<>> ELSE SubSeq(s, 1, CHOOSE i \in keep : \A j \in keep : i >= j)

\* re.sub(r'\s+', ' ', s)
CollapseSpace(s) ==
    LET t == [i \in 1..Len(s) |-> IF s[i] \in Space THEN " " ELSE s[i]]
    IN Pick(t, { i \in 1..Len(s) : ~(t[i] = " " /\ i > 1 /\ t[i - 1] = " ") })

\* s.replace(c, '')
Without(s, c) == SelectSeq(s, LAMBDA x : x # c)

\* s.find(w): the index (from 0) of the first occurrence of w, -1 without one
Find(s, w) ==
    LET at == { i \in 1..(Len(s) - Len(w) + 1) : SubSeq(s, i, i + Len(w) - 1) = w }
    IN IF at = {} THEN -1 ELSE (CHOOSE i \in at : \A j \in at : i <= j) - 1

\* w in s
Contains(s, w) == Find(s, w) >= 0

(* A pattern is a tree of nodes:
     Ch(S)            one character of the set S          [..]
     No(S)            one character not in S              [^..]
     Run(c, lo, hi)   c{lo,hi} for a character node c, greedy; RunLazy: lazy
     Lit(w)           the characters of w
     LitI(w)          w under re.IGNORECASE (w is written in upper case)
     Cat(rs)          the nodes of rs one after the other
     Alt(rs)          the first node of rs that lets the match go on
     Grp(n, r)        r as the capturing group n
     Bol, Eol, Wb     ^, $ and \b  (without re.MULTILINE)
   Match gives the ways a pattern matches at a position in the order in which
   the backtracking of re tries them; the first one is the match. *)

Inf == 100000

Ch(S) == [k |-> "ch", s |-> S]

No(S) == [k |-> "no", s |-> S]

Run(c, lo, hi) == [k |-> "run", c |-> c, lo |-> lo, hi |-> hi, lazy |-> FALSE]

RunLazy(c, lo, hi) == [k |-> "run", c |-> c, lo |-> lo, hi |-> hi, lazy |-> TRUE]

Lit(w) == [k |-> "lit", w |-> w, i |-> FALSE]

LitI(w) == [k |-> "lit", w |-> w, i |-> TRUE]

Cat(rs) == [k |-> "cat", rs |-> rs]

Alt(rs) == [k |-> "alt", rs |-> rs]

Grp(n, r) == [k |-> "grp", n |-> n, r |-> r]

Bol == [k |-> "bol"]

Eol == [k |-> "eol"]

Wb == [k |-> "wb"]

\* (?:r)?
Opt(r) == Alt(<<r, Cat(<<>>)>>)

\* .
Dot == No({"\n"})

\* \d
Dig == Ch(Digits)

\* \s
Sp == Ch(Space)

\* the groups of a match: the span of each, <<0, 0>> for a group that took no part
NoGroups == << <<0, 0>>, <<0, 0>>, <<0, 0>> >>

\* whether the character node c accepts x
Accepts(c, x) == IF c.k = "ch" THEN x \in c.s ELSE x \notin c.s

IsWordAt(s, i) == i >= 1 /\ i <= Len(s) /\ s[i] \in WordChars

\* how many characters from position i on the character node c accepts
RunLength(c, s, i) ==
    LET stop == { j \in i..Len(s) : ~Accepts(c, s[j]) }
    IN IF stop = {} THEN Len(s) - i + 1 ELSE (CHOOSE j \in stop : \A q \in stop : j <= q) - i

RECURSIVE Match(_, _, _)
Match(r, s, m) ==
    CASE r.k \in {"ch", "no"} ->
            IF m.i <= Len(s) /\ Accepts(r, s[m.i]) THEN <<[m EXCEPT !.i = @ + 1]>> ELSE <<>>
      [] r.k = "run" ->
            LET n == RunLength(r.c, s, m.i)
                top == IF n < r.hi THEN n ELSE r.hi
                cnt == IF top >= r.lo THEN top - r.lo + 1 ELSE 0
            IN [j \in 1..cnt |->
                   [m EXCEPT !.i = @ + (IF r.lazy THEN r.lo + j - 1 ELSE top - j + 1)]]
      [] r.k = "lit" ->
            IF /\ m.i + Len(r.w) - 1 <= Len(s)
               /\ \A j \in 1..Len(r.w) :
                      (IF r.i THEN ToUpper(s[m.i + j - 1]) ELSE s[m.i + j - 1]) = r.w[j]
            THEN <<[m EXCEPT !.i = @ + Len(r.w)]>> ELSE <<>>
      [] r.k = "bol" -> IF m.i = 1 THEN <<m>> ELSE <<>>
      [] r.k = "eol" ->
            IF m.i = Len(s) + 1 \/ (m.i = Len(s) /\ s[m.i] = "\n") THEN <<m>> ELSE <<>>
      [] r.k = "wb" -> IF IsWordAt(s, m.i - 1) # IsWordAt(s, m.i) THEN <<m>> ELSE <<>>
      [] r.k = "grp" ->
            LET res == Match(r.r, s, m)
            IN [x \in 1..Len(res) |-> [res[x] EXCEPT !.g[r.n] = <<m.i, res[x].i>>]]
      [] r.k = "alt" ->
            Flat([x \in 1..Len(r.rs) |-> Match(r.rs[x], s, m)], 1, Len(r.rs))
      [] r.k = "cat" ->
            IF Len(r.rs) = 0 THEN <<m>>
            ELSE LET heads == Match(Head(r.rs), s, m)
                 IN Flat([x \in 1..Len(heads) |-> Match(Cat(Tail(r.rs)), s, heads[x])],
                         1, Len(heads))

NoMatch == [ok |-> FALSE, a |-> 0, b |-> 0, g |-> NoGroups]

\* the first match among the match states ms[a] of the start positions lo..hi
Leftmost(ms, lo, hi) ==
    IF \A x \in lo..hi : Len(ms[x]) = 0 THEN NoMatch
    ELSE LET a == CHOOSE x \in lo..hi : Len(ms[x]) > 0 /\ \A y \in lo..(x - 1) : Len(ms[y]) = 0
         IN [ok |-> TRUE, a |-> a, b |-> ms[a][1].i, g |-> ms[a][1].g]

\* re.search(r, s) from position i on: the leftmost start with a match
SearchFrom(r, s, i) ==
    Leftmost([a \in i..(Len(s) + 1) |-> Match(r, s, [i |-> a, g |-> NoGroups])], i, Len(s) + 1)

\* re.search(r, s)
Search(r, s) == SearchFrom(r, s, 1)

\* m.group(n), '' standing for a group that took no part
Group(s, m, n) == SubSeq(s, m.g[n][1], m.g[n][2] - 1)

\* m.group(0)
Group0(s, m) == SubSeq(s, m.a, m.b - 1)

RECURSIVE FindAllFrom(_, _, _)
\* re.finditer(r, s): the matches one after the other, none of them empty
FindAllFrom(r, s, i) ==
    LET m == SearchFrom(r, s, i)
    IN IF ~m.ok \/ m.b <= m.a THEN <<>> ELSE <<m>> \o FindAllFrom(r, s, m.b)

FindAll(r, s) == FindAllFrom(r, s, 1)

-----------------------------------------------------------------------------
(* src/extractor/semantic_extraction.py: the fields of the header *)

\* ([\d,]+\.?\d*)
Monto == Cat(<<Run(Ch(Digits \cup {","}), 1, Inf), Run(Ch({"."}), 0, 1), Run(Dig, 0, Inf)>>)

\* [:\s]+
DosPuntosEsp == Run(Ch({":"} \cup Space), 1, Inf)

\* [A-Z0-9\-]+ under re.IGNORECASE
Codigo == Run(Ch(Letters \cup Digits \cup {"-"}), 1, Inf)

\* s.zfill(2)
Zfill2(s) == IF Len(s) < 2 THEN Zeros(2 - Len(s)) \o s ELSE s

\* r'\b(\d{2})\s+(\d{5,})\b'
PatNumeroPar == Cat(<<Wb, Grp(1, Run(Dig, 2, 2)), Run(Sp, 1, Inf), Grp(2, Run(Dig, 5, Inf)), Wb>>)

\* r'FACTURA\s+ELECTRONICA[^\n]*\n\s*(\d{2}\s+\d{5,})'
PatNumeroElectronica ==
    Cat(<<LitI(<<"F", "A", "C", "T", "U", "R", "A">>), Run(Sp, 1, Inf), LitI(<<"E", "L", "E", "C", "T", "R", "O", "N", "I", "C", "A">>), Run(No({"\n"}), 0, Inf), Ch({"\n"}),
          Run(Sp, 0, Inf), Grp(1, Cat(<<Run(Dig, 2, 2), Run(Sp, 1, Inf), Run(Dig, 5, Inf)>>))>>)

\* r'^(\d{2})\s+(\d{5,})$'
PatNumeroLinea ==
    Cat(<<Bol, Grp(1, Run(Dig, 2, 2)), Run(Sp, 1, Inf), Grp(2, Run(Dig, 5, Inf)), Eol>>)

\* the patterns list of _extract_invoice_number, under re.IGNORECASE
PatNumeros ==
    << Cat(<<LitI(<<"I", "N", "V", "O", "I", "C", "E">>), DosPuntosEsp, Grp(1, Codigo)>>),
       Cat(<<LitI(<<"F", "A", "C", "T", "U", "R", "A">>), DosPuntosEsp, Grp(1, Codigo)>>),
       Cat(<<Wb, Grp(1, Cat(<<LitI(<<"I", "N", "V">>), Run(Ch({"-"}), 0, 1), Run(Dig, 4, 8)>>)), Wb>>),
       Cat(<<LitI(<<"N", "O", ".">>), Run(Sp, 0, Inf), LitI(<<"F", "A", "C", "T", "U", "R", "A">>), Run(Ch({":"} \cup Space), 0, Inf),
             Grp(1, Run(Dig, 5, Inf))>>) >>

\* the first pattern of ps that matches s, 0 when none does
FirstMatching(ps, s) ==
    IF \E j \in 1..Len(ps) : Search(ps[j], s).ok
    THEN CHOOSE j \in 1..Len(ps) : Search(ps[j], s).ok /\ \A q \in 1..(j - 1) : ~Search(ps[q], s).ok
    ELSE 0

\* the value a field has when no pattern of _extract_invoice_number matches
ELECTRONICA == <<"E", "L", "E", "C", "T", "R", "O", "N", "I", "C", "A">>

extract_invoice_number(text, lines) ==
    LET header == JoinLines(FirstN(lines, 25))
        par == Search(PatNumeroPar, header)
        elec == Search(PatNumeroElectronica, header)
        enLinea == { j \in 1..Len(FirstN(lines, 25)) : Search(PatNumeroLinea, Strip(lines[j])).ok }
        p == FirstMatching(PatNumeros, header)
    IN IF /\ par.ok
          /\ Contains(FirstN(header, Find(header, Group0(header, par)) + 100),
                      <<"F", "A", "C", "T", "U", "R", "A">>)
       THEN Str(Group(header, par, 1) \o Group(header, par, 2))
       ELSE IF elec.ok THEN Str(Without(Group(header, elec, 1), " "))
       ELSE IF enLinea # {}
       THEN LET l == Strip(lines[CHOOSE j \in enLinea : \A q \in enLinea : j <= q])
                m == Search(PatNumeroLinea, l)
            IN Str(Group(l, m, 1) \o Group(l, m, 2))
       ELSE IF p > 0
       THEN Str(Without(Group(header, Search(PatNumeros[p], header), 1), " "))
       ELSE Str(ELECTRONICA)

\* the patterns list of _extract_date, under re.IGNORECASE
PatFechas ==
    << Cat(<<Grp(1, Cat(<<Run(Dig, 2, 2), Ch({"/"}), Run(Dig, 2, 2), Ch({"/"}), Run(Dig, 4, 4)>>)),
             Run(Sp, 1, Inf), Run(Dig, 1, 2), Ch({":"}), Run(Dig, 2, 2), Ch({":"}), Run(Dig, 2, 2),
             Run(Sp, 1, Inf), Ch({"A", "P", "a", "p"}), Ch({"M", "m"})>>),
       Cat(<<LitI(<<"D", "A", "T", "E">>), DosPuntosEsp,
             Grp(1, Cat(<<Run(Dig, 4, 4), Ch({"-", "/"}), Run(Dig, 2, 2), Ch({"-", "/"}), Run(Dig, 2, 2)>>))>>),
       Cat(<<LitI(<<"D", "A", "T", "E">>), DosPuntosEsp,
             Grp(1, Cat(<<Run(Dig, 2, 2), Ch({"-", "/"}), Run(Dig, 2, 2), Ch({"-", "/"}), Run(Dig, 4, 4)>>))>>),
       Cat(<<LitI(<<"F", "E", "C", "H", "A">>), DosPuntosEsp,
             Grp(1, Cat(<<Run(Dig, 2, 2), Ch({"-", "/"}), Run(Dig, 2, 2), Ch({"-", "/"}), Run(Dig, 4, 4)>>))>>),
       Cat(<<Grp(1, Cat(<<Run(Dig, 1, 2), Ch({"-", "/"}), Run(Dig, 1, 2), Ch({"-", "/"}), Run(Dig, 4, 4)>>))>>) >>

\* re.split(r'[-/]', s)
SplitFecha(s) ==
    LET cut == Sorted({ i \in 1..Len(s) : s[i] \in {"-", "/"} })
        from(j) == IF j = 1 THEN 1 ELSE cut[j - 1] + 1
        to(j) == IF j = Len(cut) + 1 THEN Len(s) ELSE cut[j] - 1
    IN [j \in 1..(Len(cut) + 1) |-> SubSeq(s, from(j), to(j))]

\* what the body of the loop of _extract_date returns for a matched date_str,
\* None standing for going on with the next pattern
FechaDe(date_str) ==
    LET parts == SplitFecha(date_str) IN
    IF Len(parts) # 3 THEN None
    ELSE IF Len(parts[1]) = 4
    THEN Str(parts[1] \o <<"-">> \o parts[2] \o <<"-">> \o parts[3])
    ELSE IF Len(parts[3]) = 4
    THEN Str(parts[3] \o <<"-">> \o Zfill2(parts[1]) \o <<"-">> \o Zfill2(parts[2]))
    ELSE None

extract_date(text, lines) ==
    LET header == JoinLines(FirstN(lines, 20))
        de(j) == LET m == Search(PatFechas[j], header)
                 IN IF m.ok THEN FechaDe(Group(header, m, 1)) ELSE None
        found == { j \in 1..Len(PatFechas) : de(j) # None }
    IN IF found = {} THEN None ELSE de(CHOOSE j \in found : \A q \in found : j <= q)

\* r'Seller:' under re.IGNORECASE
PatSeller == LitI(<<"S", "E", "L", "L", "E", "R", ":">>)

\* r'SHIPPER:\s*(.+?)(?:ORIGEN|PORT|$)'
PatShipper ==
    Cat(<<LitI(<<"S", "H", "I", "P", "P", "E", "R", ":">>), Run(Sp, 0, Inf), Grp(1, RunLazy(Dot, 1, Inf)),
          Alt(<<LitI(<<"O", "R", "I", "G", "E", "N">>), LitI(<<"P", "O", "R", "T">>), Eol>>)>>)

\* r'(Fabricante|Proveedor):\s*(.+)'
PatFabricante ==
    Cat(<<Grp(1, Alt(<<LitI(<<"F", "A", "B", "R", "I", "C", "A", "N", "T", "E">>), LitI(<<"P", "R", "O", "V", "E", "E", "D", "O", "R">>)>>)), Ch({":"}), Run(Sp, 0, Inf),
          Grp(2, Run(Dot, 1, Inf))>>)

extract_provider(text, lines) ==
    LET seller == { j \in 1..Len(FirstN(lines, 10)) :
                       /\ Search(PatSeller, lines[j]).ok
                       /\ j + 1 <= Len(lines)
                       /\ Len(Strip(lines[j + 1])) > 3 }
        shipper == Search(PatShipper, text)
        provider == Search(PatFabricante, text)
    IN IF seller # {} THEN Str(Strip(lines[(CHOOSE j \in seller : \A q \in seller : j <= q) + 1]))
       ELSE IF shipper.ok THEN Str(Strip(Group(text, shipper, 1)))
       ELSE IF provider.ok THEN Str(Strip(Group(text, provider, 2)))
       ELSE None

\* the nit_patterns list of _extract_client_nit, under re.IGNORECASE
PatNits ==
    << Cat(<<LitI(<<"N", "I", "T">>), Run(Ch({"."} \cup Space), 0, Inf), Run(Ch({":", "-"}), 0, 1), Run(Sp, 0, Inf),
             Grp(1, Run(Ch(Digits \cup {"-", "."}), 1, Inf))>>),
       Cat(<<LitI(<<"T", "A", "X">>), Run(Sp, 0, Inf), LitI(<<"I", "D", ":">>), Run(Sp, 0, Inf),
             Grp(1, Run(Ch(Digits \cup {"-"}), 1, Inf))>>),
       Cat(<<LitI(<<"N", "I", "T", ":">>), Run(Sp, 0, Inf), Grp(1, Run(Ch(Digits \cup {"-", "."}), 1, Inf))>>) >>

extract_client_nit(text, lines) ==
    LET p == FirstMatching(PatNits, text)
    IN IF p > 0 THEN Str(Strip(Group(text, Search(PatNits[p], text), 1))) ELSE None

\* r'(CR|CALLE|CARRERA|AV|AVENIDA)\s+[\d\s\-]+(?:\s+\d+)?'
PatCalle ==
    Cat(<<Grp(1, Alt(<<LitI(<<"C", "R">>), LitI(<<"C", "A", "L", "L", "E">>), LitI(<<"C", "A", "R", "R", "E", "R", "A">>), LitI(<<"A", "V">>), LitI(<<"A", "V", "E", "N", "I", "D", "A">>)>>)),
          Run(Sp, 1, Inf), Run(Ch(Digits \cup Space \cup {"-"}), 1, Inf),
          Opt(Cat(<<Run(Sp, 1, Inf), Run(Dig, 1, Inf)>>))>>)

\* r'Direccion:\s*(.+)' and r'Address:\s*(.+)'
PatDirecciones ==
    << Cat(<<LitI(<<"D", "I", "R", "E", "C", "C", "I", "O", "N", ":">>), Run(Sp, 0, Inf), Grp(1, Run(Dot, 1, Inf))>>),
       Cat(<<LitI(<<"A", "D", "D", "R", "E", "S", "S", ":">>), Run(Sp, 0, Inf), Grp(1, Run(Dot, 1, Inf))>>) >>

extract_address(text, lines) ==
    LET calle == Search(PatCalle, text)
        p == FirstMatching(PatDirecciones, text)
        seller == { j \in 1..Len(FirstN(lines, 10)) :
                       /\ Search(PatSeller, lines[j]).ok
                       /\ j + 2 <= Len(lines)
                       /\ Search(Run(Dig, 1, Inf), Strip(lines[j + 2])).ok }
    IN IF calle.ok THEN Str(FirstN(Strip(Group0(text, calle)), 100))
       ELSE IF p > 0
       THEN Str(FirstN(Strip(Group(text, Search(PatDirecciones[p], text), 1)), 100))
       ELSE IF seller # {}
       THEN Str(Strip(lines[(CHOOSE j \in seller : \A q \in seller : j <= q) + 2]))
       ELSE None

\* r'\bUSD\b', r'\bCOP\b' and r'\bEUR\b' under re.IGNORECASE
PatMoneda(w) == Cat(<<Wb, LitI(w), Wb>>)

extract_currency(text) ==
    IF Search(PatMoneda(<<"U", "S", "D">>), text).ok THEN Str(<<"U", "S", "D">>)
    ELSE IF Search(PatMoneda(<<"C", "O", "P">>), text).ok THEN Str(<<"C", "O", "P">>)
    ELSE IF Contains(text, <<"€">>) \/ Search(PatMoneda(<<"E", "U", "R">>), text).ok
    THEN Str(<<"E", "U", "R">>)
    ELSE Str(<<"U", "S", "D">>)

-----------------------------------------------------------------------------
(* src/extractor/semantic_extraction.py: the item table and the amounts *)

\* r'Codigo\s+Descipcion|Descripcion|Description' under re.IGNORECASE
PatCabecera ==
    Alt(<<Cat(<<LitI(<<"C", "O", "D", "I", "G", "O">>), Run(Sp, 1, Inf), LitI(<<"D", "E", "S", "C", "I", "P", "C", "I", "O", "N">>)>>), LitI(<<"D", "E", "S", "C", "R", "I", "P", "C", "I", "O", "N">>), LitI(<<"D", "E", "S", "C", "R", "I", "P", "T", "I", "O", "N">>)>>)

\* r'PRACTICAR|RESOLUCION|Fecha Limite|CUFE|Tasa:' under re.IGNORECASE
PatFinTabla ==
    Alt(<<LitI(<<"P", "R", "A", "C", "T", "I", "C", "A", "R">>), LitI(<<"R", "E", "S", "O", "L", "U", "C", "I", "O", "N">>), LitI(<<"F", "E", "C", "H", "A", " ", "L", "I", "M", "I", "T", "E">>), LitI(<<"C", "U", "F", "E">>), LitI(<<"T", "A", "S", "A", ":">>)>>)

\* r'^(.+?)\s+([\d,]+\.?\d*)$'
PatFila == Cat(<<Bol, Grp(1, RunLazy(Dot, 1, Inf)), Run(Sp, 1, Inf), Grp(2, Monto), Eol>>)

\* r'^(\d+)\.?\s+(.+)'
PatNumerado ==
    Cat(<<Bol, Grp(1, Run(Dig, 1, Inf)), Run(Ch({"."}), 0, 1), Run(Sp, 1, Inf),
          Grp(2, Run(Dot, 1, Inf))>>)

\* r'(\d+)[.,](\d{2})\s*(?:each)?'
PatCantidad ==
    Cat(<<Grp(1, Run(Dig, 1, Inf)), Ch({".", ","}), Grp(2, Run(Dig, 2, 2)), Run(Sp, 0, Inf),
          Opt(Lit(<<"e", "a", "c", "h">>))>>)

\* r'(\d{1,4})[.,](\d{2})'
PatPrecio == Cat(<<Grp(1, Run(Dig, 1, 4)), Ch({".", ","}), Grp(2, Run(Dig, 2, 2))>>)

\* float(f"{a}.{b}") for digits a and two digits b
FloatDe(a, b) == Num(100 * DigitsValue(a) + DigitsValue(b))

\* an item dict
ItemDict(descripcion, cantidad, precio_unitario, total) ==
    Dict([descripcion |-> descripcion, cantidad |-> cantidad,
          precio_unitario |-> precio_unitario, total |-> total])

\* the lines (counted from 1) the loop of _extract_items_from_table goes
\* through: after the last header line seen before the loop over the lines
\* breaks, up to the line of the end marker it breaks at
TablaDesde(lines) ==
    LET cab(j) == Search(PatCabecera, lines[j]).ok
        fin == { j \in 1..Len(lines) :
                    Search(PatFinTabla, lines[j]).ok /\ \E h \in 1..j : cab(h) }
        corte == IF fin = {} THEN Len(lines) + 1 ELSE CHOOSE j \in fin : \A q \in fin : j <= q
        cabs == { h \in 1..Len(lines) : cab(h) /\ h <= corte }
    IN [desde |-> IF cabs = {} THEN 1 ELSE (CHOOSE h \in cabs : \A q \in cabs : h >= q) + 1,
        hasta |-> corte - 1]

\* the items one line of the table gives: none or one
ItemsDeLinea(lines, j, hasta) ==
    LET line == Strip(lines[j])
        fila == Search(PatFila, line)
        num == Search(PatNumerado, line)
        search_text == JoinLines(SubSeq(lines, j, IF j + 4 < hasta THEN j + 4 ELSE hasta))
        cantidad_match == Search(PatCantidad, search_text)
        precios == FindAll(PatPrecio, search_text)
    IN IF Len(line) < 3 THEN <<>>
       ELSE IF \/ Contains(line, <<"T", "a", "s", "a", ":">>) \/ Contains(line, <<"C", "U", "F", "E", ":">>)
               \/ Contains(line, <<"P", "R", "A", "C", "T", "I", "C", "A", "R">>)
       THEN <<>>
       ELSE IF fila.ok
       THEN <<ItemDict(Str(Strip(Group(line, fila, 1))), Str(NA), Str(NA),
                       Str(Strip(Group(line, fila, 2))))>>
       ELSE IF num.ok /\ cantidad_match.ok /\ Len(precios) >= 3
       THEN <<ItemDict(Str(FirstN(Strip(Group(line, num, 2)), 100)),
                       FloatDe(Group(search_text, cantidad_match, 1),
                               Group(search_text, cantidad_match, 2)),
                       FloatDe(Group(search_text, precios[1], 1),
                               Group(search_text, precios[1], 2)),
                       FloatDe(Group(search_text, precios[Len(precios)], 1),
                               Group(search_text, precios[Len(precios)], 2)))>>
       ELSE <<>>

extract_items_from_table(text, lines) ==
    LET t == TablaDesde(lines)
    IN Flat([j \in 1..Len(lines) |->
                IF j >= t.desde /\ j <= t.hasta THEN ItemsDeLinea(lines, j, t.hasta) ELSE <<>>],
            1, Len(lines))

\* value_str = match.group(1).replace(',', '').replace(' ', ''); float(value_str)
FloatDeMonto(s) == FloatOfStr(Without(Without(s, ","), " "))

\* for pattern in patterns: the float of the first pattern that matches s and
\* whose group 1 converts; ok = FALSE stands for None
PrimerMonto(ps, s) ==
    LET de(j) == LET m == Search(ps[j], s)
                 IN IF m.ok THEN FloatDeMonto(Group(s, m, 1)) ELSE NoFloat
        found == { j \in 1..Len(ps) : de(j).ok }
    IN IF found = {} THEN NoFloat ELSE de(CHOOSE j \in found : \A q \in found : j <= q)

\* the subtotal_patterns of _extract_net_worth, under re.IGNORECASE
PatSubtotales ==
    << Cat(<<LitI(<<"S", "U", "B", "-", "T", "O", "T", "A", "L">>), DosPuntosEsp, LitI(<<"U", "S">>), Run(Ch({"D", "d"}), 0, 1), Run(Sp, 0, Inf),
             Grp(1, Monto)>>),
       Cat(<<LitI(<<"S", "U", "B", "T", "O", "T", "A", "L">>), DosPuntosEsp, Run(Ch({"$"}), 0, 1), Run(Sp, 0, Inf), Grp(1, Monto)>>),
       Cat(<<LitI(<<"N", "E", "T">>), Run(Sp, 0, Inf), LitI(<<"W", "O", "R", "T", "H">>), DosPuntosEsp, Grp(1, Monto)>>) >>

extract_net_worth(text, lines) == PrimerMonto(PatSubtotales, JoinLines(LastN(lines, 15)))

\* r'^IVA\s+USD\s+([\d,]+\.?\d*)$' under re.IGNORECASE
PatIvaLinea ==
    Cat(<<Bol, LitI(<<"I", "V", "A">>), Run(Sp, 1, Inf), LitI(<<"U", "S", "D">>), Run(Sp, 1, Inf), Grp(1, Monto), Eol>>)

\* r'([\d,]+\.?\d*)$'
PatMontoFinal == Cat(<<Grp(1, Monto), Eol>>)

\* the vat_patterns of _extract_vat, under re.IGNORECASE
PatIvas ==
    << Cat(<<LitI(<<"I", "V", "A">>), Run(Sp, 1, Inf), LitI(<<"U", "S", "D">>), Run(Sp, 0, Inf), Grp(1, Monto)>>),
       Cat(<<LitI(<<"V", "A", "T">>), DosPuntosEsp, Run(Ch({"$"}), 0, 1), Run(Sp, 0, Inf), Grp(1, Monto)>>) >>

extract_vat(text, lines) ==
    LET de(j) == LET m == Search(PatMontoFinal, lines[j])
                 IN IF Search(PatIvaLinea, Strip(lines[j])).ok /\ m.ok
                    THEN FloatDeMonto(Group(lines[j], m, 1)) ELSE NoFloat
        found == { j \in 1..Len(lines) : de(j).ok }
        corte == { j \in 1..Len(lines) :
                      Contains(lines[j], <<"T", "a", "s", "a", ":">>) \/ Contains(lines[j], <<"C", "U", "F", "E", ":">>) }
        summary_lines ==
            IF corte = {} THEN lines
            ELSE SubSeq(lines, 1, (CHOOSE j \in corte : \A q \in corte : j <= q) - 1)
    IN IF found # {} THEN de(CHOOSE j \in found : \A q \in found : j <= q)
       ELSE PrimerMonto(PatIvas, JoinLines(LastN(summary_lines, 15)))

\* the total_patterns of _extract_gross_worth, under re.IGNORECASE
PatTotales ==
    << Cat(<<LitI(<<"T", "O", "T", "A", "L">>), Run(Sp, 1, Inf), LitI(<<"U", "S", "D">>), Run(Sp, 0, Inf), Grp(1, Monto)>>),
       Cat(<<LitI(<<"T", "O", "T", "A", "L">>), DosPuntosEsp, Run(Ch({"$"}), 0, 1), Run(Sp, 0, Inf), Grp(1, Monto)>>),
       Cat(<<LitI(<<"G", "R", "O", "S", "S">>), Run(Sp, 0, Inf), LitI(<<"W", "O", "R", "T", "H">>), DosPuntosEsp, Grp(1, Monto)>>) >>

extract_gross_worth(text, lines) == PrimerMonto(PatTotales, JoinLines(LastN(lines, 10)))

-----------------------------------------------------------------------------
(* src/extractor/semantic_extraction.py: extract_semantic_data *)

Cero00 == <<"0", ".", "0", "0">>

USD == <<"U", "S", "D">>

\* the dict of _empty_invoice and of the head of extract_semantic_data; the keys
\* only the later stages add are Missing
Registro(numero_factura, fecha_emision, proveedor, nit_proveedor, direccion_proveedor, subtotal, impuestos, total, moneda, items) ==
    [ numero_factura |-> numero_factura, fecha_emision |-> fecha_emision, proveedor |-> proveedor,
      nit_proveedor |-> nit_proveedor, direccion_proveedor |-> direccion_proveedor,
      subtotal |-> subtotal, impuestos |-> impuestos, total |-> total, moneda |-> moneda,
      items |-> items,
      nit_emisor |-> Missing, iva |-> Missing, cufe |-> Missing, actividad_economica |-> Missing,
      retencion_fuente |-> Missing, forma_pago |-> Missing, fecha_limite_pago |-> Missing ]

empty_invoice ==
    Registro(None, None, None, None, None, Str(Cero00), Str(Cero00), Str(Cero00), Str(USD),
             List(<<>>))

\* desc = item.get('descripcion', '').upper().strip(); desc.rstrip('.').strip();
\* re.sub(r'\s+', ' ', desc)
DescNormal(item) ==
    CollapseSpace(Strip(RStripDot(Strip(UpperStr(StrOf(item.d.descripcion))))))

\* which amount the row of an item stands for
ClaseDeFila(item) ==
    LET desc == DescNormal(item) IN
    IF \/ Contains(desc, <<"T", "O", "T", "A", "L", " ", "U", "S", "D">>)
       \/ desc = <<"T", "O", "T", "A", "L">>
       \/ (Contains(desc, <<"T", "O", "T", "A", "L">>) /\ ~Contains(desc, <<"S", "U", "B">>))
    THEN "total"
    ELSE IF \/ Contains(desc, <<"S", "U", "B", "-", "T", "O", "T", "A", "L">>) \/ Contains(desc, <<"S", "U", "B", "T", "O", "T", "A", "L">>)
            \/ Contains(desc, <<"S", "U", "B", " ", "T", "O", "T", "A", "L">>)
    THEN "subtotal"
    ELSE IF Contains(desc, <<"I", "V", "A">>) THEN "iva"
    ELSE "otro"

\* item_total, a str: str(total) for a number
ItemTotal(item) == Str(StrOf(item.d.total))

\* the value the loop over the items leaves in total_usd_value and iva_value
\* (the last row of the class) and in subtotal_value (the first): None without one
ValorDeFilas(items, clase, primero) ==
    LET filas == { j \in 1..Len(items) : ClaseDeFila(items[j]) = clase }
    IN IF filas = {} THEN None
       ELSE ItemTotal(items[CHOOSE j \in filas :
                                \A q \in filas : IF primero THEN j <= q ELSE j >= q])

\* r'(SUB-TOTAL|SUBTOTAL|IVA|TOTAL|0\s*-\s*,)' under re.IGNORECASE
PatResumen ==
    Alt(<<LitI(<<"S", "U", "B", "-", "T", "O", "T", "A", "L">>), LitI(<<"S", "U", "B", "T", "O", "T", "A", "L">>), LitI(<<"I", "V", "A">>), LitI(<<"T", "O", "T", "A", "L">>),
          Cat(<<Ch({"0"}), Run(Sp, 0, Inf), Ch({"-"}), Run(Sp, 0, Inf), Ch({","})>>)>>)

\* r'(SUB-TOTAL|SUBTOTAL|IVA|TOTAL)' under re.IGNORECASE
PatResumenCorto == Alt(<<LitI(<<"S", "U", "B", "-", "T", "O", "T", "A", "L">>), LitI(<<"S", "U", "B", "T", "O", "T", "A", "L">>), LitI(<<"I", "V", "A">>), LitI(<<"T", "O", "T", "A", "L">>)>>)

\* filtered_items: the items whose description is no summary row
FiltrarItems(items) ==
    SelectSeq(items, LAMBDA item : ~Search(PatResumen, UpperStr(StrOf(item.d.descripcion))).ok)

\* f"{x:.2f}" for x >= 0
Fmt2(v) == NatDigits(v \div 100) \o <<".">> \o <<DigitChar((v % 100) \div 10), DigitChar(v % 10)>>

\* r"(FLETE|GASTOS|CLEANING|GATE)[^\d]*([\d,.]+)" under re.IGNORECASE
PatFlete ==
    Cat(<<Grp(1, Alt(<<LitI(<<"F", "L", "E", "T", "E">>), LitI(<<"G", "A", "S", "T", "O", "S">>), LitI(<<"C", "L", "E", "A", "N", "I", "N", "G">>), LitI(<<"G", "A", "T", "E">>)>>)),
          Run(No(Digits), 0, Inf), Grp(2, Run(Ch(Digits \cup {",", "."}), 1, Inf))>>)

\* fallback_items
FallbackItems(text) ==
    LET ms == FindAll(PatFlete, text)
        de(j) == LET desc == Strip(Group(text, ms[j], 1))
                 IN IF Search(PatResumenCorto, desc).ok THEN <<>>
                    ELSE <<ItemDict(Str(desc), Str(NA), Str(NA), Str(Strip(Group(text, ms[j], 2))))>>
    IN Flat([j \in 1..Len(ms) |-> de(j)], 1, Len(ms))

\* new_items: what is no dict becomes one
NormalizarItems(items) ==
    [j \in 1..Len(items) |->
        IF items[j].t = "dict" THEN items[j]
        ELSE ItemDict(Str(StrOf(items[j])), Str(NA), Str(NA), Str(NA))]

\* r"(fabricante|proveedor|empresa|shipper)[:\.]?\s*(.{5,50})" under re.IGNORECASE
PatProveedorAlt ==
    Cat(<<Grp(1, Alt(<<LitI(<<"F", "A", "B", "R", "I", "C", "A", "N", "T", "E">>), LitI(<<"P", "R", "O", "V", "E", "E", "D", "O", "R">>), LitI(<<"E", "M", "P", "R", "E", "S", "A">>), LitI(<<"S", "H", "I", "P", "P", "E", "R">>)>>)),
          Run(Ch({":", "."}), 0, 1), Run(Sp, 0, Inf), Grp(2, Run(Dot, 5, 50))>>)

\* r"\d{1,2}[\/\-]\d{1,2}[\/\-]\d{2,4}"
PatFechaAlt ==
    Cat(<<Run(Dig, 1, 2), Ch({"/", "-"}), Run(Dig, 1, 2), Ch({"/", "-"}), Run(Dig, 2, 4)>>)

\* r"[A-Za-z]{3,}-\d{1,2}-\d{4}"
PatFechaMes ==
    Cat(<<Run(Ch(Letters), 3, Inf), Ch({"-"}), Run(Dig, 1, 2), Ch({"-"}), Run(Dig, 4, 4)>>)

\* what calculated_total is added from: float(x.replace(',', ''))
SumaDe(subtotal, impuestos) ==
    [ok |-> FloatOfStr(Without(subtotal.s, ",")).ok /\ FloatOfStr(Without(impuestos.s, ",")).ok,
     v |-> FloatOfStr(Without(subtotal.s, ",")).v + FloatOfStr(Without(impuestos.s, ",")).v]

\* data["total"] after the fallback of the total, alt_total being what
\* _extract_gross_worth returned and suma the sum of subtotal and impuestos
TotalDe(total, alt_total, suma) ==
    IF total # Str(Cero00) THEN total
    ELSE IF alt_total.ok /\ alt_total.v # 0 THEN Str(StrOfNum(alt_total.v))
    ELSE IF suma.ok /\ suma.v > 0 THEN Str(Fmt2(suma.v))
    ELSE total

\* if data[k] == "0.00": alt = extractor(text, lines); if alt: data[k] = str(alt)
MontoDe(actual, alt) ==
    IF actual = Str(Cero00) /\ alt.ok /\ alt.v # 0 THEN Str(StrOfNum(alt.v)) ELSE actual

\* data[k] of a row of totals: its value when truthy, "0.00" otherwise
ValorAsignado(v) == IF Truthy(v) THEN v ELSE Str(Cero00)

\* if not data.get("fecha_emision"): the first date of the text in one of two forms
FechaAlt(fecha, fechas, fechas_mes, text) ==
    IF Truthy(fecha) THEN fecha
    ELSE IF fechas.ok THEN Str(Group0(text, fechas))
    ELSE IF fechas_mes.ok THEN Str(Group0(text, fechas_mes))
    ELSE fecha

\* if not data.get(k): group n of the match m of the alternative pattern
CampoAlt(actual, m, n, text) ==
    IF Truthy(actual) THEN actual
    ELSE IF m.ok THEN Str(Strip(Group(text, m, n)))
    ELSE actual

\* lines 102-153: the amounts and the items after the fallbacks, from the values
\* of the rows of totals and the filtered items
ConFallbacks(text, lines, total0, subtotal0, impuestos0, filtered_items) ==
    [ total |-> TotalDe(total0, extract_gross_worth(text, lines), SumaDe(subtotal0, impuestos0)),
      subtotal |-> MontoDe(subtotal0, extract_net_worth(text, lines)),
      impuestos |-> MontoDe(impuestos0, extract_vat(text, lines)),
      items |-> List(NormalizarItems(IF Len(filtered_items) = 0 THEN FallbackItems(text)
                                      ELSE filtered_items)) ]

\* lines 40-153: the amounts and the items of the record, from the items of
\* _extract_items_from_table
DeTabla(text, lines, tabla) ==
    ConFallbacks(text, lines,
                 ValorAsignado(ValorDeFilas(tabla, "total", FALSE)),
                 ValorAsignado(ValorDeFilas(tabla, "subtotal", TRUE)),
                 ValorAsignado(ValorDeFilas(tabla, "iva", FALSE)),
                 FiltrarItems(tabla))

\* the record: the fields of the header with their fallbacks (lines 21-32 and
\* 155-171) and the amounts and items t
ConCampos(text, lines, t) ==
    Registro(extract_invoice_number(text, lines),
             FechaAlt(extract_date(text, lines), Search(PatFechaAlt, text),
                      Search(PatFechaMes, text), text),
             CampoAlt(extract_provider(text, lines), Search(PatProveedorAlt, text), 2, text),
             CampoAlt(extract_client_nit(text, lines), Search(PatNits[1], text), 1, text),
             extract_address(text, lines),
             t.subtotal, t.impuestos, t.total,
             extract_currency(text),
             t.items)

extract_semantic_data(text) ==
    IF Len(text) = 0 THEN empty_invoice
    ELSE ConCampos(text, SplitLines(text),
                   DeTabla(text, SplitLines(text),
                           extract_items_from_table(text, SplitLines(text))))

-----------------------------------------------------------------------------
(* src/app.py: fill_invoice_robust *)

NULL == <<"N", "U", "L", "L">>

\* the defaults dict
Defaults ==
    [ proveedor |-> Str(NA), nit_emisor |-> Str(NA), direccion_proveedor |-> Str(NA),
      subtotal |-> Num(0), iva |-> Num(0), total |-> Num(0), moneda |-> Str(USD),
      numero_factura |-> Str(NA), fecha_emision |-> Str(NA), cufe |-> Str(NA),
      actividad_economica |-> Str(NA), retencion_fuente |-> Num(4), forma_pago |-> Str(NA),
      fecha_limite_pago |-> Str(NA), items |-> List(<<>>) ]

\* k not in data or data[k] in [None, "NULL", ""]
SinValor(x) == x = Missing \/ x = None \/ x = Str(NULL) \/ x = Str(<<>>)

\* r"(SHIPPER|Proveedor|Seller)[:\s]*(.+?)(?:\n|MBL_|HBL_|$)" under re.IGNORECASE
PatProveedorOcr ==
    Cat(<<Grp(1, Alt(<<LitI(<<"S", "H", "I", "P", "P", "E", "R">>), LitI(<<"P", "R", "O", "V", "E", "E", "D", "O", "R">>), LitI(<<"S", "E", "L", "L", "E", "R">>)>>)),
          Run(Ch({":"} \cup Space), 0, Inf), Grp(2, RunLazy(Dot, 1, Inf)),
          Alt(<<Ch({"\n"}), LitI(<<"M", "B", "L", "_">>), LitI(<<"H", "B", "L", "_">>), Eol>>)>>)

\* r"NIT[:\s.]*(\d{5,}-?\d*)" under re.IGNORECASE
PatNitOcr ==
    Cat(<<LitI(<<"N", "I", "T">>), Run(Ch({":", "."} \cup Space), 0, Inf),
          Grp(1, Cat(<<Run(Dig, 5, Inf), Run(Ch({"-"}), 0, 1), Run(Dig, 0, Inf)>>))>>)

\* r"CUFE:([a-f0-9]{128})" under re.IGNORECASE
PatCufeOcr ==
    Cat(<<LitI(<<"C", "U", "F", "E", ":">>),
          Grp(1, Run(Ch(Digits \cup {"a", "b", "c", "d", "e", "f", "A", "B", "C", "D", "E", "F"}),
                     128, 128))>>)

\* r"(\d{2}[/-]\d{2}[/-]\d{4})"
PatFechaOcr ==
    Grp(1, Cat(<<Run(Dig, 2, 2), Ch({"/", "-"}), Run(Dig, 2, 2), Ch({"/", "-"}), Run(Dig, 4, 4)>>))

\* data[field] = float(data[field].replace(",", "")), 0.00 when that raises;
\* what is no str stays
ConvertirMonto(x) ==
    IF x.t # "str" THEN x
    ELSE LET f == FloatOfStr(Without(x.s, ",")) IN IF f.ok THEN Num(f.v) ELSE Num(0)

\* data[k] after the regex of the fallback: group n of its match in ocr
\* when data[k] is None, 'N/A' or '', and the pattern matches
DelOcr(x, pat, n, ocr) ==
    LET m == Search(pat, ocr)
    IN IF InNAList(x) /\ m.ok THEN Str(Strip(Group(ocr, m, n))) ELSE x

fill_invoice_robust(d, ocr) ==
    LET con == [k \in DOMAIN d |->
                   IF k \in DOMAIN Defaults /\ SinValor(d[k]) THEN Defaults[k] ELSE d[k]]
    IN [con EXCEPT
           !.proveedor = DelOcr(@, PatProveedorOcr, 2, ocr),
           !.nit_emisor = DelOcr(@, PatNitOcr, 1, ocr),
           !.cufe = DelOcr(@, PatCufeOcr, 1, ocr),
           !.fecha_emision = DelOcr(@, PatFechaOcr, 1, ocr),
           !.subtotal = ConvertirMonto(@),
           !.iva = ConvertirMonto(@),
           !.total = ConvertirMonto(@)]

-----------------------------------------------------------------------------
(* The texts the pipeline is run on *)

TextoVacio == <<>>

\* a text no pattern of the extractor matches
TextoSinCampos == <<"h", "o", "l", "a">>

\* two item lines and the three summary lines, amounts with a dot before the
\* last three digits
TextoEscenario == <<"I", "t", "e", "m", " ", "A", " ", "5", "0", "0", ".", "0", "0", "0", "\n", "I", "t", "e", "m", " ", "B", " ", "4", "0", "0", ".", "0", "0", "0", "\n", "S", "u", "b", "t", "o", "t", "a", "l", ":", " ", "9", "0", "0", ".", "0", "0", "0", "\n", "I", "V", "A", " ", "(", "1", "9", "%", ")", ":", " ", "1", "7", "1", ".", "0", "0", "0", "\n", "T", "O", "T", "A", "L", ":", " ", "1", ".", "0", "7", "1", ".", "0", "0", "0">>

\* an issue date 1825 days before Clock0, written month first
TextoFechaLimite == <<"F", "e", "c", "h", "a", ":", " ", "0", "3", "/", "1", "7", "/", "2", "0", "1", "9">>

\* the same date written day first, as Colombian invoices write it
TextoFechaDia == <<"F", "e", "c", "h", "a", ":", " ", "1", "7", "/", "0", "3", "/", "2", "0", "1", "9">>

\* rows of IVA and total, none of a subtotal
TextoSinSubtotal == <<"I", "V", "A", " ", "1", "9", ".", "0", "0", "\n", "T", "O", "T", "A", "L", " ", "1", "1", "9", ".", "0", "0">>

\* rows of subtotal and IVA, none of a total
TextoSinTotal == <<"S", "u", "b", "t", "o", "t", "a", "l", " ", "n", "e", "t", "o", " ", "1", "0", "0", ".", "0", "0", "\n", "I", "V", "A", " ", "1", "9", ".", "0", "0">>

\* the summary lines _extract_net_worth and _extract_vat read, none of a total
TextoResumenSinTotal == <<"N", "e", "t", " ", "w", "o", "r", "t", "h", ":", " ", "1", "0", "0", ".", "0", "0", "\n", "V", "A", "T", ":", " ", "1", "9", ".", "0", "0">>

\* a table: header, one item row, the three summary rows
TextoTabla == <<"D", "e", "s", "c", "r", "i", "p", "c", "i", "o", "n", " ", "V", "a", "l", "o", "r", "\n", "F", "L", "E", "T", "E", " ", "1", "0", "0", ".", "0", "0", "\n", "S", "U", "B", "T", "O", "T", "A", "L", " ", "1", "0", "0", ".", "0", "0", "\n", "I", "V", "A", " ", "1", "9", ".", "0", "0", "\n", "T", "O", "T", "A", "L", " ", "1", "1", "9", ".", "0", "0">>

\* no line is a table row: the items come from the fallback
TextoFlete == <<"F", "L", "E", "T", "E", ":", " ", "$", "1", "0", "0", ".", "0", "0", "\n", "T", "O", "T", "A", "L", ":", " ", "$", "1", "0", "0", ".", "0", "0">>

\* an item row and summary rows labelled in English
TextoInglesResumen == <<"W", "i", "d", "g", "e", "t", " ", "1", "0", "0", ".", "0", "0", "\n", "S", "u", "b", "t", "o", "t", "a", "l", " ", "1", "0", "0", ".", "0", "0", "\n", "T", "a", "x", " ", "1", "9", ".", "0", "0", "\n", "T", "o", "t", "a", "l", " ", "1", "1", "9", ".", "0", "0">>

\* number, tax id and supplier in the header
TextoFactura == <<"F", "a", "c", "t", "u", "r", "a", ":", " ", "A", "-", "1", "\n", "N", "I", "T", ":", " ", "9", "0", "0", "1", "2", "3", "4", "5", "6", "-", "7", "\n", "P", "r", "o", "v", "e", "e", "d", "o", "r", ":", " ", "A", "C", "M", "E", " ", "S", "A">>

Grupo3(n) == <<DigitChar(n \div 100), DigitChar((n \div 10) % 10), DigitChar(n % 10)>>

RECURSIVE Miles(_, _)
\* the digits of n in groups of three separated by sep
Miles(n, sep) ==
    IF n < 1000 THEN NatDigits(n) ELSE Miles(n \div 1000, sep) \o <<sep>> \o Grupo3(n % 1000)

\* the amount of d hundredths written with a thousands separator and a decimal
\* marker
FormatoMonto(d, miles, decimal) ==
    Miles(d \div 100, miles) \o <<decimal>> \o <<DigitChar((d % 100) \div 10), DigitChar(d % 10)>>

Estilos == {"coma", "punto"}

\* a subtotal line with the amount d in the style 1,234.56 ("coma") or 1.234,56
\* ("punto")
TextoMonto(d, estilo) ==
    <<"S", "u", "b", "t", "o", "t", "a", "l", ":", " ">> \o (IF estilo = "coma" THEN FormatoMonto(d, ",", ".")
                        ELSE FormatoMonto(d, ".", ","))

\* amounts in hundredths: below one, below a thousand, with thousands
Montos == {50, 1200, 123056, 1234056}

Textos ==
    { TextoVacio, TextoSinCampos, TextoEscenario, TextoFechaLimite, TextoSinSubtotal,
      TextoSinTotal, TextoResumenSinTotal, TextoTabla, TextoFlete, TextoInglesResumen,
      TextoFactura, TextoFechaDia }
        \cup { TextoMonto(d, e) : d \in Montos, e \in Estilos }

-----------------------------------------------------------------------------
(* The pipeline of src/app.py on one text: extraction, completion of the
   fields, validation; the same text may be processed again. *)

MaxRuns == 2

\* extracted_data = {}: no key is set
SinExtraer == [k \in DOMAIN empty_invoice |-> Missing]

InitPipeline ==
    /\ ocr_text \in Textos
    /\ runs = <<>>
    /\ data = SinExtraer
    /\ kb \in KBModes
    /\ now = Clock0
    /\ ticks = 0
    /\ pc = "text"
    /\ report = NoReport
    /\ factura_files = <<>>
    /\ validator = "none"
    /\ idx = 0
    /\ all_results = <<>>
    /\ json_output_dir = <<>>
    /\ SinIntake /\ SinExtractor /\ SinLlm

\* mutant: the items of the earlier run are kept and those of this run added
Extraccion_Acumula ==
    /\ pc = "text"
    /\ data' = [extract_semantic_data(ocr_text) EXCEPT
                   !.items = List((IF Len(runs) = 0 THEN <<>> ELSE runs[Len(runs)].data.items.l)
                                  \o @.l)]
    /\ pc' = "extracted"
    /\ UNCHANGED <<kb, now, ticks, report, pipeline_vars, batch_vars, intake_vars, extractor_vars, llm_vars>>

\* step 3: extracted_data = extract_semantic_data(ocr_text), items [] when falsy
Extraccion ==
    /\ pc = "text"
    /\ data' = [extract_semantic_data(ocr_text) EXCEPT
                   !.items = IF Truthy(@) THEN @ ELSE List(<<>>)]
    /\ pc' = "extracted"
    /\ UNCHANGED <<kb, now, ticks, report, pipeline_vars, batch_vars, intake_vars, extractor_vars, llm_vars>>

\* step 4: extracted_data = fill_invoice_robust(extracted_data, ocr_text); the
\* record is then ready for step 5, validate_invoice
Completar ==
    /\ pc = "extracted"
    /\ data' = fill_invoice_robust(data, ocr_text)
    /\ pc' = "ready"
    /\ UNCHANGED <<kb, now, ticks, report, pipeline_vars, batch_vars, intake_vars, extractor_vars, llm_vars>>

\* the same document is processed again: the script runs from its start, the
\* validator and its knowledge base are the same
Repetir ==
    /\ pc = "done"
    /\ Len(runs) + 1 < MaxRuns
    /\ runs' = Append(runs, [data |-> data, report |-> report, now |-> now])
    /\ data' = SinExtraer
    /\ report' = NoReport
    /\ pc' = "text"
    /\ UNCHANGED <<kb, now, ticks, ocr_text, batch_vars, intake_vars, extractor_vars, llm_vars>>

NextPipeline == Extraccion \/ Completar \/ Tick \/ validate_invoice \/ Repetir

SpecPipeline == InitPipeline /\ [][NextPipeline]_vars

\* the record extract_semantic_data returned
Extraido == pc = "extracted"

\* the record after fill_invoice_robust
Completado == pc \in {"ready", "done"}

-----------------------------------------------------------------------------
(* Properties of the pipeline *)

\* C13: for the empty text the pipeline (extraction, completion, validation)
\* gives a report that is not valid, in which rule 1 (issue date), rule 2
\* (tax id) and rule 4 (totals) each failed with severity error.
C13_TextoVacio ==
    (Done /\ ocr_text = TextoVacio) =>
        /\ ~report.valid
        /\ \A i \in {1, 2, 4} :
               ~report.validations[i].valid /\ report.validations[i].severity = "error"

C13_Witness ==
    /\ Done /\ ocr_text = TextoVacio
    /\ data.items = List(<<>>) /\ data.fecha_emision = Str(NA) /\ data.total = Num(0)
    /\ Len(report.errors) = 3

\* the fields of the header whose absence the record shows
CamposCabecera ==
    {"numero_factura", "fecha_emision", "proveedor", "nit_proveedor", "direccion_proveedor"}

\* C14: for a text in which no pattern matches (the empty text included), the
\* record extract_semantic_data returns has None for the invoice number, the
\* issue date, the supplier name, the supplier tax id and the supplier address,
\* and an empty item list: no absent field holds a placeholder string.
C14_AusenteEsNull ==
    (Extraido /\ ocr_text \in {TextoVacio, TextoSinCampos}) =>
        /\ \A k \in CamposCabecera : data[k] = None
        /\ data.items = List(<<>>)

\* C15: amount parsing round-trips in both locale styles: for every amount d
\* with two fraction digits, the subtotal parsed from d written as 1,234.56
\* and the one parsed from d written as 1.234,56 are both d.
C15_IdaYVuelta ==
    \A d \in Montos, e \in Estilos :
        (Completado /\ ocr_text = TextoMonto(d, e)) => data.subtotal = Num(d)

\* C16: for the text with the summary lines Subtotal: 900.000, IVA (19%):
\* 171.000 and TOTAL: 1.071.000 and two item lines that add up to 900.000, the
\* pipeline gives subtotal 900000.00, tax 171000.00 and total 1071000.00, and
\* the findings of rule 4 and rule 6 passed.
C16_Escenario ==
    (Done /\ ocr_text = TextoEscenario) =>
        /\ data.subtotal = Num(90000000)
        /\ data.iva = Num(17100000)
        /\ data.total = Num(107100000)
        /\ report.validations[4].valid
        /\ report.validations[6].valid

ValorDe(x) == FloatOfStr(Without(x.s, ",")).v

\* C19: when exactly one of subtotal, tax and total is unknown ("0.00") after
\* the direct extraction, extract_semantic_data derives it from the other two
\* (total = subtotal + tax, subtotal = total - tax, tax = total - subtotal), so
\* the returned record never has just one of the three unknown while the
\* other two give a positive value for it.
C19_Deriva ==
    Extraido =>
        LET s == ValorDe(data.subtotal)
            i == ValorDe(data.impuestos)
            t == ValorDe(data.total)
        IN /\ ~(t = 0 /\ s > 0 /\ i > 0)
           /\ ~(s = 0 /\ i > 0 /\ t > i)
           /\ ~(i = 0 /\ s > 0 /\ t > s)

\* the words of a summary row: subtotal, tax, total
Vocabulario ==
    { <<"S", "U", "B", "T", "O", "T", "A", "L">>, <<"S", "U", "B", "-", "T", "O", "T", "A", "L">>, <<"T", "O", "T", "A", "L">>, <<"I", "V", "A">>, <<"T", "A", "X">>, <<"V", "A", "T">> }

\* C20: no item of the record extract_semantic_data returns has a description
\* with a word of the summary rows (subtotal, tax or IVA, total), whether the
\* items come from the table or from the fallback.
C20_SinResumen ==
    Extraido =>
        \A j \in 1..Len(data.items.l) :
            \A w \in Vocabulario :
                ~Contains(UpperStr(data.items.l[j].d.descripcion.s), w)

-----------------------------------------------------------------------------
(* The batch of src/main.py: every file of the directory goes through OCR,
   extraction and validation, and the results are collected in all_results. *)

MaxFiles == 2

\* what ocr_process_file returns: the str of src/ocr_layout/extraction.py
\* (empty when the OCR fails) or the dict with a 'text' that main reads
OcrOutputs ==
    { Str(<<>>), Str(TextoFactura), Dict([text |-> Str(<<>>)]),
      Dict([text |-> Str(TextoFactura)]) }

\* the names of the files: a stem and one of the extensions the listing keeps
Stems == {"factura1", "factura2"}

Extensiones == {".pdf", ".png"}

\* filename.lower().endswith(('.png', '.jpg', '.jpeg'))
EsImagen(filename) == filename.ext \in {".png", ".jpg", ".jpeg"}

\* a file of the directory: its name, whether preprocess_image raises for it
\* ("none" for a pdf, which is not preprocessed), and what ocr_process_file
\* returns for processed_input (the preprocessed image, or the file itself
\* for a pdf and when preprocess_image raises)
Documentos ==
    { d \in [ filename : [stem : Stems, ext : Extensiones],
              preprocess : {"ok", "raises", "none"},
              ocr : OcrOutputs ] :
        (d.preprocess = "none") <=> ~EsImagen(d.filename) }

\* os.listdir: the files of a directory have different names
Lotes ==
    { l \in UNION { [1..n -> Documentos] : n \in 1..MaxFiles } :
        \A j, k \in DOMAIN l : l[j].filename = l[k].filename => j = k }

\* validator is a RAGValidator when --use-rag is given and the knowledge base
\* loads with vectors, None otherwise
InitBatch ==
    /\ factura_files \in Lotes
    /\ validator \in {"none", "rag"}
    /\ idx = 0
    /\ all_results = <<>>
    /\ json_output_dir = <<>>
    /\ SinIntake /\ SinExtractor /\ SinLlm
    /\ data = SinExtraer
    /\ kb = "none"
    /\ now = Clock0
    /\ ticks = 0
    /\ pc = "batch"
    /\ report = NoReport
    /\ ocr_text = <<>>
    /\ runs = <<>>

\* not ocr_output or not ocr_output.get("text", "").strip(), for a dict that
\* holds 'text' (truthy) or a str: "raises" for the AttributeError of .get on
\* a str that is not empty
SinTexto(ocr_output) ==
    IF ocr_output.t = "dict"
    THEN IF Len(Strip(ocr_output.d.text.s)) = 0 THEN "skip" ELSE "text"
    ELSE IF ~Truthy(ocr_output) THEN "skip" ELSE "raises"

\* final_data: the extracted record with the validations of the file.
\* RAGValidator has no method validate, so the call raises AttributeError and
\* the except branch sets validations = {} and validation_status = "ERROR";
\* without a validator validations = {} and validation_status = "NO_VALIDADO"
FinalData(text, v) ==
    [ record |-> extract_semantic_data(text),
      validations |-> <<>>,
      validation_status |-> IF v = "rag" THEN "ERROR" ELSE "NO_VALIDADO" ]

\* json_filename = f"{os.path.splitext(filename)[0]}.json"
JsonFilename(filename) == [stem |-> filename.stem, ext |-> ".json"]

\* open(json_path, 'w') and json.dump: the file of that name holds content,
\* whatever it held before
Escribir(dir, name, content) ==
    [n \in DOMAIN dir \cup {name} |-> IF n = name THEN content ELSE dir[n]]

\* the dict appended to all_results for the file at position i
Resultado(i, text, v) == [source_file |-> i, data |-> FinalData(text, v)]

\* one pass of the loop over factura_files: the file is skipped (continue) when
\* the OCR gives no text or the pass raises; otherwise its final_data is saved
\* as JSON and one result is appended
procesar ==
    /\ pc = "batch"
    /\ idx < Len(factura_files)
    /\ idx' = idx + 1
    /\ LET ocr_output == factura_files[idx + 1].ocr IN
       IF SinTexto(ocr_output) = "text"
       THEN /\ all_results' = Append(all_results, Resultado(idx + 1, ocr_output.d.text.s, validator))
            /\ json_output_dir' = Escribir(json_output_dir,
                                           JsonFilename(factura_files[idx + 1].filename),
                                           all_results'[Len(all_results')])
       ELSE UNCHANGED <<all_results, json_output_dir>>
    /\ UNCHANGED <<data, kb, now, ticks, pc, report, pipeline_vars, factura_files, validator,
                   intake_vars, extractor_vars, llm_vars>>

NextBatch == procesar

SpecBatch == InitBatch /\ [][NextBatch]_vars

\* the results of the file at position i of factura_files
ResultadosDe(i) == { j \in 1..Len(all_results) : all_results[j].source_file = i }

\* C18: in the batch every file that went through the loop has exactly one
\* result, with a complete record and a complete validation report (the
\* findings of all ten rules): no file is dropped and no result has an empty
\* set of validations, whatever the OCR, the preprocessing or the validator did.
C18_TodoDocumento ==
    \A i \in 1..idx :
        /\ Cardinality(ResultadosDe(i)) = 1
        /\ \A j \in ResultadosDe(i) :
               /\ CamposCabecera \subseteq DOMAIN all_results[j].data.record
               /\ Len(all_results[j].data.validations) = Len(RuleFields)

-----------------------------------------------------------------------------
(* Properties of the extractors *)

\* some line of the text matches the vocabulary of the header of the table
HayCabecera(text) ==
    \E j \in 1..Len(SplitLines(text)) : Search(PatCabecera, SplitLines(text)[j]).ok

\* C21: when no line of the text matches the vocabulary of the table header
\* (the region of the item table cannot be located),
\* _extract_items_from_table returns the empty list, whatever the other lines
\* of the text are.
C21_SinCabecera ==
    (Extraido /\ Len(ocr_text) > 0 /\ ~HayCabecera(ocr_text)) =>
        extract_items_from_table(ocr_text, SplitLines(ocr_text)) = <<>>

\* the str is a date YYYY-MM-DD: four digits, a month 01-12, a day the month has
EsFechaIso(s) == Len(s) = 10 /\ Strptime(s, [sep |-> "-", ymd |-> TRUE]).ok

\* C22: every issue date the extraction returns that is not None is a valid
\* ISO 8601 date (YYYY-MM-DD, month 01-12, a day of that month) when the text
\* it matched is a calendar date, so rule 1 never reports an extracted date as
\* a format it does not recognise.
C22_FechaIso ==
    /\ (Extraido /\ data.fecha_emision # None) => EsFechaIso(data.fecha_emision.s)
    /\ (Done /\ data.fecha_emision # Str(NA)) =>
           report.validations[1].message # "Formato de fecha no reconocido"

-----------------------------------------------------------------------------
(* The intake of extract_semantic_data: what it is given may be a str, a dict
   with the text under 'text' (itself a str or such a dict), or None. *)

\* dict.get('text', '')
GetText(d) == IF "text" \in DOMAIN d THEN d.text ELSE Str(<<>>)

\* _get_text_from_output: a str is returned as it is, of a dict the str() of
\* its 'text' (of the 'text' of that, when it is a dict), and str() of
\* anything else
get_text_from_output(o) ==
    IF o.t = "str" THEN o.s
    ELSE IF o.t = "dict"
    THEN IF GetText(o.d).t = "dict" THEN StrOf(GetText(GetText(o.d).d)) ELSE StrOf(GetText(o.d))
    ELSE StrOf(o)

\* a dict without the key 'text'
SinClaveText == Dict([file_path |-> Str(<<"a", ".", "p", "d", "f">>)])

\* the inputs that hold no text: None, the empty str, and the OCR results
\* whose 'text' is None, missing or empty
EntradasNulas ==
    { None, Str(<<>>), SinClaveText, Dict([text |-> None]), Dict([text |-> Str(<<>>)]),
      Dict([text |-> SinClaveText]), Dict([text |-> Dict([text |-> None])]) }

Entradas ==
    EntradasNulas
        \cup { Str(t) : t \in Textos }
        \cup { Dict([text |-> Str(t)]) : t \in Textos }
        \cup { Dict([text |-> Dict([text |-> Str(t)])]) : t \in Textos }

InitIntake ==
    /\ output_ocr \in Entradas
    /\ ocr_text = <<>>
    /\ data = SinExtraer
    /\ pc = "intake"
    /\ runs = <<>>
    /\ kb = "none"
    /\ now = Clock0
    /\ ticks = 0
    /\ report = NoReport
    /\ factura_files = <<>>
    /\ validator = "none"
    /\ idx = 0
    /\ all_results = <<>>
    /\ json_output_dir = <<>>
    /\ SinExtractor /\ SinLlm

\* extract_semantic_data(ocr_output): text = _get_text_from_output(ocr_output),
\* then the extraction from text
Intake ==
    /\ pc = "intake"
    /\ ocr_text' = get_text_from_output(output_ocr)
    /\ data' = extract_semantic_data(ocr_text')
    /\ pc' = "extracted"
    /\ UNCHANGED <<kb, now, ticks, report, runs, batch_vars, intake_vars, extractor_vars, llm_vars>>

NextIntake == Intake

SpecIntake == InitIntake /\ [][NextIntake]_vars

\* C23: the intake returns a str for every input, and the empty str for an
\* input that is empty or null (None, or an OCR result whose 'text' is None or
\* missing): such an input is processed as the empty text and gives the empty
\* record.
C23_EntradaNula ==
    (Extraido /\ output_ocr \in EntradasNulas) =>
        /\ ocr_text = <<>>
        /\ data = empty_invoice

-----------------------------------------------------------------------------
(* RAGValidator.validate_data of src/rag/validator.py: the interface of the
   earlier validator, given the same records as validate_invoice. *)

\* result = self.validate_invoice(extracted_data);
\* extracted_data['validations'] = result; return extracted_data
validate_data ==
    /\ pc = "ready"
    /\ IF Raises(RunRules(data, kb, now))
       THEN pc' = "raised" /\ report' = NoReport /\ data' = data
       ELSE /\ pc' = "done"
            /\ report' = BuildReport(RunRules(data, kb, now))
            /\ data' = [k \in DOMAIN data \cup {"validations"} |->
                           IF k = "validations" THEN Dict(report') ELSE data[k]]
    /\ UNCHANGED <<kb, now, ticks, pipeline_vars, batch_vars, intake_vars, extractor_vars, llm_vars>>

NextRag == Tick \/ validate_data

SpecRag == Init /\ [][NextRag]_vars

\* C24: the record is never modified by validation: validate_invoice and
\* validate_data leave every key and every value of the record they are given
\* as it was and add no key to it.
C24_RegistroIntacto == [][data' = data]_vars

-----------------------------------------------------------------------------
(* The record between the extraction and the validation *)

\* C25: in the pipeline of the app the supplier tax id and the tax amount that
\* rules 2, 4 and 5 check (nit_emisor, iva) are the values the extraction
\* produced (nit_proveedor, impuestos): an extracted tax id that is not None
\* and an extracted tax amount that is not zero are not replaced by a default
\* ('N/A', 0) before the validation.
C25_ValoresExtraidos ==
    Completado =>
        /\ Truthy(data.nit_proveedor) => data.nit_emisor = data.nit_proveedor
        /\ ValorDe(data.impuestos) # 0 => data.iva = Num(ValorDe(data.impuestos))

-----------------------------------------------------------------------------
(* The lists of the report *)

\* the positions of the findings of r that failed with severity error (e = TRUE)
\* or with another severity (e = FALSE)
Fallidas(r, e) ==
    { i \in 1..Len(r.validations) :
        ~r.validations[i].valid /\ ((r.validations[i].severity = "error") <=> e) }

\* l holds the messages of the findings at the positions P, in rule order
EnOrden(l, r, P) ==
    /\ Len(l) = Cardinality(P)
    /\ \A i \in P : l[Cardinality({ j \in P : j <= i })] = r.validations[i].message

\* C26: in every report passed_validations + len(errors) + len(warnings) =
\* total_validations: errors holds exactly the messages of the findings that
\* failed with severity error, warnings exactly those of the findings that
\* failed with any other severity, each in rule order, and a finding that
\* passed is in neither list.
C26_Particion ==
    Done =>
        /\ report.passed_validations + Len(report.errors) + Len(report.warnings)
               = report.total_validations
        /\ EnOrden(report.errors, report, Fallidas(report, TRUE))
        /\ EnOrden(report.warnings, report, Fallidas(report, FALSE))
        /\ \A i \in 1..Len(report.validations) :
               report.validations[i].valid =>
                   /\ \A j \in 1..Len(report.errors) : report.errors[j] # report.validations[i].message
                   /\ \A j \in 1..Len(report.warnings) : report.warnings[j] # report.validations[i].message

\* a report with errors, warnings and findings that passed, one of them with
\* severity warning
C26_Witness ==
    /\ Done
    /\ Len(report.errors) >= 2 /\ Len(report.warnings) >= 2
    /\ \E i \in 1..Len(report.validations) :
           report.validations[i].valid /\ report.validations[i].severity = "warning"
    /\ report.passed_validations + Len(report.errors) + Len(report.warnings) = 10

-----------------------------------------------------------------------------
(* The files the batch saves *)

-----------------------------------------------------------------------------
(* DataExtractor of src/extractor/data_extractor.py: process_batch calls
   process_invoice on every invoice of invoices_data and collects the results. *)

MaxInvoices == 2

\* self.model
Model == "llama3.1:8b"

\* a text of blanks, a text of fewer than 10 characters, and a text of 10
\* characters of which 2 are not blank
TextoBlanco == <<" ", " ", " ">>

TextoCorto == <<"T", "o", "t", "a", "l", " ", "5">>

TextoEspaciado == <<"a", " ", " ", " ", " ", " ", " ", " ", " ", "b">>

\* the ocr_text of an invoice: None or a str
OcrTexts == { None, Str(<<>>), Str(TextoBlanco), Str(TextoCorto), Str(TextoEspaciado), Str(TextoFactura) }

ImagePaths == { Str(<<"a", ".", "p", "n", "g">>), Str(<<"b", ".", "p", "n", "g">>) }

Invoices == { [image_path |-> p, ocr_text |-> t] : p \in ImagePaths, t \in OcrTexts }

InvoicesData == UNION { [1..n -> Invoices] : n \in 1..MaxInvoices }

\* _empty_result(image_path)
empty_result(image_path) ==
    [ numero_factura |-> None, fecha_emision |-> None, proveedor |-> None,
      nit_proveedor |-> None, direccion_proveedor |-> None, items |-> List(<<>>),
      moneda |-> Str(USD), subtotal |-> Num(0), impuestos |-> Num(0), total |-> Num(0),
      metadata |-> [source_image |-> StrOf(image_path), ocr_length |-> 0, items_count |-> 0,
                    extraction_model |-> Model],
      confianza |-> "nula", modelo_usado |-> "ninguno",
      explicacion |-> "No se pudo extraer informacion" ]

\* from extractor.semantic_extraction import extract_from_ocr: that module
\* defines no extract_from_ocr, so the import raises ImportError
extract_from_ocr(text) == Raise("ImportError: cannot import name 'extract_from_ocr'")

\* not ocr_text or len(ocr_text.strip()) < 10
MuyCorto(text) == ~Truthy(text) \/ Len(Strip(text.s)) < 10

\* mutant: the extraction is not inside try/except
process_invoice_SinTry(image_path, text) ==
    IF MuyCorto(text) THEN empty_result(image_path) ELSE extract_from_ocr(text.s)

\* process_invoice(image_path, ocr_text): the empty result for a text that is
\* empty or too short and when the extraction raises
process_invoice(image_path, text) ==
    IF MuyCorto(text) THEN empty_result(image_path)
    ELSE IF extract_from_ocr(text.s).severity = "raised" THEN empty_result(image_path)
    ELSE extract_from_ocr(text.s)

InitExtractor ==
    /\ invoices_data \in InvoicesData
    /\ results = <<>>
    /\ i_invoice = 0
    /\ pc = "process_batch"
    /\ data = SinExtraer
    /\ kb = "none"
    /\ now = Clock0
    /\ ticks = 0
    /\ report = NoReport
    /\ ocr_text = <<>>
    /\ runs = <<>>
    /\ factura_files = <<>>
    /\ validator = "none"
    /\ idx = 0
    /\ all_results = <<>>
    /\ json_output_dir = <<>>
    /\ SinIntake /\ SinLlm

\* the result of the invoice at position j
ResultadoDe(j) == process_invoice(invoices_data[j].image_path, invoices_data[j].ocr_text)

\* one pass of the loop of process_batch: result = self.process_invoice(...);
\* results.append(result).  An exception of process_invoice leaves process_batch
Procesar ==
    /\ pc = "process_batch"
    /\ i_invoice < Len(invoices_data)
    /\ IF "severity" \in DOMAIN ResultadoDe(i_invoice + 1)
       THEN pc' = "raised" /\ UNCHANGED <<results, i_invoice>>
       ELSE /\ results' = Append(results, ResultadoDe(i_invoice + 1))
            /\ i_invoice' = i_invoice + 1
            /\ pc' = pc
    /\ UNCHANGED <<data, kb, now, ticks, report, pipeline_vars, batch_vars, intake_vars,
                   invoices_data, llm_vars>>

\* after the loop: the summary is printed and results returned
Retornar ==
    /\ pc = "process_batch"
    /\ i_invoice = Len(invoices_data)
    /\ pc' = "returned"
    /\ UNCHANGED <<data, kb, now, ticks, report, pipeline_vars, batch_vars, intake_vars,
                   extractor_vars, llm_vars>>

NextExtractor == Procesar \/ Retornar

SpecExtractor == InitExtractor /\ [][NextExtractor]_vars

\* process_batch is one sequential loop: it goes on while it can
SpecExtractorFair == SpecExtractor /\ WF_vars(NextExtractor)

\* a result is the empty result: None fields, no items, total 0
EsVacio(r) ==
    /\ \A k \in CamposCabecera : r[k] = None
    /\ r.items = List(<<>>)
    /\ r.total = Num(0)

\* the results so far are those of the first invoices, one each and in order,
\* and empty for an invoice whose text is empty or has fewer than 10 characters
\* that are not blank, or whose extraction raises
UnoPorFactura ==
    /\ Len(results) = i_invoice
    /\ \A j \in 1..Len(results) :
           /\ results[j].metadata.source_image = invoices_data[j].image_path.s
           /\ (\/ ~Truthy(invoices_data[j].ocr_text)
               \/ Len(Without(invoices_data[j].ocr_text.s, " ")) < 10
               \/ extract_from_ocr(invoices_data[j].ocr_text.s).severity = "raised")
                  => EsVacio(results[j])

\* C28: process_batch returns exactly one result for every invoice it is
\* given, in the order of the invoices; an invoice whose OCR text is empty or
\* has fewer than 10 characters that are not blank, or whose extraction raises,
\* gives the empty result (None fields, no items, total 0) and neither stops
\* nor changes the processing of the other invoices: the batch always returns.
C28_UnoPorFactura ==
    /\ [](UnoPorFactura /\ pc # "raised")
    /\ <>(pc = "returned" /\ Len(results) = Len(invoices_data))

\* a batch that returned, whose first invoice was too short and whose second
\* went to the extraction
C28_Witness ==
    /\ pc = "returned"
    /\ Len(results) = 2
    /\ invoices_data[1].ocr_text = Str(TextoCorto)
    /\ invoices_data[2].ocr_text = Str(TextoFactura)
    /\ results[1].metadata.source_image # results[2].metadata.source_image
    /\ EsVacio(results[2])

-----------------------------------------------------------------------------
(* Step 5 of src/app.py and the display of its result: validate_invoice is
   called inside try; the except branch builds the validation result itself. *)

\* what the call of validate_invoice may raise besides the exception of a rule
Excepciones == {"MemoryError"}

\* the dict of the except branch: 'errors': [str(e)]
Fallback(e) ==
    [ valid |-> FALSE,
      errors |-> <<e>>,
      warnings |-> <<>>,
      confidence_score |-> [num |-> 0, den |-> 1],
      recommendation |-> "Error en validacion" ]

\* validation_result after the try of step 5, e the exception raised ("" none)
ValidationResult(validations, e) ==
    IF e # "" THEN Fallback(e)
    ELSE IF Raises(validations) THEN Fallback("TypeError")
    ELSE BuildReport(validations)

\* step 5: validation_result = validator.validate_invoice(extracted_data) and
\* extracted_data['validation'] = validation_result; when the call raises,
\* validation_result is the dict of the except branch and extracted_data is as
\* it was
Paso5 ==
    /\ pc = "ready"
    /\ \E e \in {""} \cup Excepciones :
           /\ report' = ValidationResult(RunRules(data, kb, now), e)
           /\ IF "validations" \in DOMAIN report'
              THEN /\ pc' = "validated"
                   /\ data' = [k \in DOMAIN data \cup {"validation"} |->
                                  IF k = "validation" THEN report' ELSE data[k]]
              ELSE /\ pc' = "fallback"
                   /\ data' = data
    /\ UNCHANGED <<kb, now, ticks, pipeline_vars, batch_vars, intake_vars, extractor_vars, llm_vars>>

\* the keys display_validation_results reads from validation_result, in order
ClavesLeidas == <<"valid", "confidence_score", "recommendation", "errors", "warnings", "validations">>

\* display_validation_results(validation_result): validation_result[key] of a
\* key the dict does not hold raises KeyError
display_validation_results ==
    /\ pc \in {"validated", "fallback"}
    /\ pc' = IF \A i \in 1..Len(ClavesLeidas) : ClavesLeidas[i] \in DOMAIN report
             THEN "displayed" ELSE "KeyError"
    /\ UNCHANGED <<data, kb, now, ticks, report, pipeline_vars, batch_vars, intake_vars,
                   extractor_vars, llm_vars>>

\* tab 3: the table of validation_result['validations'] and the report saved
\* with json.dump
Exportar ==
    /\ pc = "displayed"
    /\ pc' = IF "validations" \in DOMAIN report THEN "exported" ELSE "KeyError"
    /\ UNCHANGED <<data, kb, now, ticks, report, pipeline_vars, batch_vars, intake_vars,
                   extractor_vars, llm_vars>>

NextApp == Extraccion \/ Completar \/ Tick \/ Paso5 \/ display_validation_results \/ Exportar

SpecApp == InitPipeline /\ [][NextApp]_vars

\* validation_result is the dict of the except branch of step 5
EsFallback ==
    /\ pc \in {"fallback", "displayed", "exported", "KeyError"}
    /\ report.recommendation = "Error en validacion"

\* C29: when validate_invoice raises in the app, the validation result of the
\* except branch holds every key the display and the export read (valid,
\* confidence_score, recommendation, errors, warnings, validations), and
\* displaying it ends without an error.
C29_FallbackCompleto ==
    EsFallback =>
        /\ \A i \in 1..Len(ClavesLeidas) : ClavesLeidas[i] \in DOMAIN report
        /\ pc # "KeyError"

-----------------------------------------------------------------------------
(* get_llm_normalizer of src/llm/normalizer.py called from several threads:
   the module global _normalizer_instance is tested, an LLMNormalizer is
   built when it is None (its __init__ waits for an HTTP answer), the global
   is assigned, and the global is read again for the return. *)

MaxCallers == 3

\* a caller that has not yet entered get_llm_normalizer
Llamador == [at |-> "call", local |-> 0, ret |-> 0]

InitSingleton ==
    /\ normalizer_instance = 0
    /\ instances = 0
    /\ callers \in UNION { [1..n -> {Llamador}] : n \in 1..MaxCallers }
    /\ pc = "singleton"
    /\ data = SinExtraer
    /\ kb = "none"
    /\ now = Clock0
    /\ ticks = 0
    /\ report = NoReport
    /\ ocr_text = <<>>
    /\ runs = <<>>
    /\ factura_files = <<>>
    /\ validator = "none"
    /\ idx = 0
    /\ all_results = <<>>
    /\ json_output_dir = <<>>
    /\ SinIntake /\ SinExtractor

\* the variables get_llm_normalizer leaves alone
SinCambio ==
    UNCHANGED <<data, kb, now, ticks, pc, report, pipeline_vars, batch_vars, intake_vars,
                extractor_vars>>

\* if _normalizer_instance is None
Comprobar ==
    /\ pc = "singleton"
    /\ \E t \in DOMAIN callers :
           /\ callers[t].at = "call"
           /\ callers' = [callers EXCEPT ![t].at = IF normalizer_instance = 0 THEN "create"
                                                    ELSE "return"]
    /\ UNCHANGED <<normalizer_instance, instances>>
    /\ SinCambio

\* LLMNormalizer(): a new instance, numbered in the order of creation
Crear ==
    /\ pc = "singleton"
    /\ \E t \in DOMAIN callers :
           /\ callers[t].at = "create"
           /\ instances' = instances + 1
           /\ callers' = [callers EXCEPT ![t].at = "store", ![t].local = instances + 1]
    /\ UNCHANGED normalizer_instance
    /\ SinCambio

\* _normalizer_instance = <the new instance>
Asignar ==
    /\ pc = "singleton"
    /\ \E t \in DOMAIN callers :
           /\ callers[t].at = "store"
           /\ normalizer_instance' = callers[t].local
           /\ callers' = [callers EXCEPT ![t].at = "return"]
    /\ UNCHANGED instances
    /\ SinCambio

\* return _normalizer_instance
Devolver ==
    /\ pc = "singleton"
    /\ \E t \in DOMAIN callers :
           /\ callers[t].at = "return"
           /\ callers' = [callers EXCEPT ![t].at = "done", ![t].ret = normalizer_instance]
    /\ UNCHANGED <<normalizer_instance, instances>>
    /\ SinCambio

NextSingleton == Comprobar \/ Crear \/ Asignar \/ Devolver

SpecSingleton == InitSingleton /\ [][NextSingleton]_vars

\* C30: however concurrent calls of get_llm_normalizer interleave, at most one
\* LLMNormalizer is created and every caller that returned got that same
\* instance.
C30_UnaInstancia ==
    /\ instances <= 1
    /\ \A t \in DOMAIN callers : \A u \in DOMAIN callers :
           (callers[t].at = "done" /\ callers[u].at = "done") => callers[t].ret = callers[u].ret

====
